---- MODULE Spec2Model ----
(***************************************************************************)
(* Publish transaction of the portfolio pre-build scripts                  *)
(* (lib/folio-prebuild.py and lib/pre-build.py): build invocations and     *)
(* --repair invocations that share one `public` directory, its lock marker *)
(* `projects_build.lock`, the live directory `projects`, numbered siblings *)
(* `projects N`, backups `projects_backup_*` and temp build directories    *)
(* `projects_tmp_*`.                                                       *)
(***************************************************************************)
EXTENDS Integers, FiniteSets, Sequences, TLC

(* ------------------------------ bounds --------------------------------- *)
NumProcs == 2            \* invocations started against the public directory
MaxFaults == 2           \* filesystem calls that may fail in one behaviour
MaxExternalRenames == 1  \* renames done by the cloud-sync process
MaxSiblingNo == 3        \* highest N of a `projects N` name

Procs == 1..NumProcs

(* ------------------------------ names ---------------------------------- *)
\* Every entry of `public` the scripts look at is a pair <<kind, number>>.
Live == <<"projects", 0>>
Numbered(n) == <<"projects N", n>>
PrepBackup(p) == <<"projects_backup_time_pid", p>>
SwapBackup(p) == <<"projects_backup_time", p>>
Tmp(p) == <<"projects_tmp", p>>
None == <<"None", 0>>

NumberedNames == {Numbered(n) : n \in 2..MaxSiblingNo}
BackupNames == {PrepBackup(p) : p \in Procs} \cup {SwapBackup(p) : p \in Procs}
TmpNames == {Tmp(p) : p \in Procs}
Names == {Live} \cup NumberedNames \cup BackupNames \cup TmpNames

Scripts == {"folio-prebuild", "pre-build"}

\* Builds: the tree that is live before any invocation, and one per invocation.
PrevBuild == 0
NewBuild(p) == p
StaleBuild == NumProcs + 1   \* an older copy left in a numbered sibling

Absent == [build |-> 0, tree |-> "absent", mtime |-> 0]
Complete(b, t) == [build |-> b, tree |-> "complete", mtime |-> t]
Partial(b, t) == [build |-> b, tree |-> "partial", mtime |-> t]

VARIABLES
    fs,             \* directories of `public`: name -> [build, tree, mtime]
    lock,           \* 0: no lock marker; p: marker written by invocation p
    pc,             \* position of each invocation in main()
    script,         \* which script the invocation runs ("none": not started)
    lock_acquired,  \* the nonlocal flag of acquire_lock / release_lock
    backup_path,    \* the local backup_path of main()
    fsOps,          \* kinds of changes the invocation made inside `public`
    clock,          \* source of modification times
    faults,         \* failed filesystem calls so far
    renames         \* external renames so far

publishVars == <<fs, lock, pc, script, lock_acquired, backup_path, fsOps,
                 clock, faults, renames>>

\* The document loop of main(): one build reading its .folio candidates.
VARIABLES
    idx,            \* candidates processed so far (the loop index)
    objs,           \* the objects parsed from the candidate read last
    all_projects,   \* the aggregated list written to projects.json
    skipped,        \* (candidate, reason) pairs of the skip list
    folio_url_to_id, \* declared filePath -> project id
    discovered      \* the documents found, in discovery order

loadVars == <<idx, objs, all_projects, skipped, folio_url_to_id, discovered>>

\* resolve_folio_resources, called once after the document loop.
VARIABLES
    warnings,       \* the warnings list of resolve_folio_resources
    resolve_state   \* "pending", "returned" or "raised"

resolveVars == <<warnings, resolve_state>>

\* One call of determine_collection_item_type.
VARIABLES
    raw_type,        \* the declared type of the collection item
    path_val,        \* the path hint
    classifier,      \* the script whose function was called ("none": not yet)
    normalized_type  \* what the call returned

classifyVars == <<raw_type, path_val, classifier, normalized_type>>

\* One package directory, the builds that read it and the stem fallbacks
\* called on it.
VARIABLES
    tree,            \* the files of the package directory
    images,          \* the `images` dict of its document: <<key, value>> pairs
    builds,          \* what each build over the directory produced
    fallback,        \* the stem fallback that is called ("none": none)
    ref_path,        \* the reference it is called for
    located          \* what each call returned

assetVars == <<tree, images, builds, fallback, ref_path, located>>

\* The manifest written at the end of a build.
VARIABLES
    serializable_projects,  \* the sanitized records
    written                 \* projects.json has been written

sanitizeVars == <<serializable_projects, written>>

\* The tail of main(): the hostnames side file and the swap of the manifest.
VARIABLES
    hostnames_config,   \* hostnames listed in public/image-hostnames.json
    live_projects,      \* projects.json of public/projects (<<>>: absent)
    publish_step        \* position in the tail of main()

hostVars == <<hostnames_config, live_projects, publish_step>>

\* The base directory main() picks for one document.
VARIABLES
    proj_dir,   \* folio_path.parent of the document
    dirs,       \* the directories that exist, as absolute paths
    base_dir    \* obj["_base_dir"] (NoPath: not yet set)

baseVars == <<proj_dir, dirs, base_dir>>

\* copy_collection_for_project on one collection of a document, then the
\* resolver.
VARIABLES
    declared_items, \* the items of the collection as the document declares them
    items_array,    \* the same list as the build changes it in place
    collection_step \* "declared", "copied", "resolved" or "raised"

collectionVars == <<declared_items, items_array, collection_step>>

\* Everything a build holds besides the publish transaction.
buildVars == <<loadVars, resolveVars, classifyVars, assetVars, sanitizeVars,
               hostVars, baseVars, collectionVars>>

\* What the steps of one part leave alone.
exceptLoad == <<publishVars, resolveVars, classifyVars, assetVars,
                sanitizeVars, hostVars, baseVars, collectionVars>>
exceptResolve == <<publishVars, idx, objs, skipped, folio_url_to_id,
                   discovered, classifyVars, assetVars, sanitizeVars,
                   hostVars, baseVars, collectionVars>>
exceptClassify == <<publishVars, loadVars, resolveVars, assetVars,
                    sanitizeVars, hostVars, baseVars, collectionVars>>
exceptAssets == <<publishVars, loadVars, resolveVars, classifyVars,
                  sanitizeVars, hostVars, baseVars, collectionVars>>
exceptSanitize == <<publishVars, loadVars, resolveVars, classifyVars,
                    assetVars, hostVars, baseVars, collectionVars>>

exceptHost == <<publishVars, loadVars, resolveVars, classifyVars, assetVars,
                sanitizeVars, baseVars, collectionVars>>

exceptBase == <<publishVars, loadVars, resolveVars, classifyVars, assetVars,
                sanitizeVars, hostVars, collectionVars>>

exceptCollection == <<publishVars, loadVars, resolveVars, classifyVars,
                      assetVars, sanitizeVars, hostVars, baseVars>>

vars == <<publishVars, buildVars>>

(* --------------------------- filesystem -------------------------------- *)
Exists(f, n) == f[n].tree # "absent"

\* Path.rename of a directory onto a name that does not exist.
Rename(f, a, b) == [f EXCEPT ![b] = f[a], ![a] = Absent]

\* shutil.rmtree either removes the tree, or raises: before touching
\* anything, or after it has deleted part of the tree.
RmOutcomes == {"removed", "untouched", "partial"}

RmOutcomesFor(d) ==
    IF d.tree = "complete" THEN RmOutcomes ELSE {"removed", "untouched"}

RmResult(d, o) ==
    IF o = "removed" THEN Absent
    ELSE IF o = "partial" THEN [d EXCEPT !.tree = "partial"]
    ELSE d

OutcomeMaps(f, S) ==
    {o \in [S -> RmOutcomes] : \A n \in S : o[n] \in RmOutcomesFor(f[n])}

RmtreeAll(f, S, o) ==
    [n \in Names |-> IF n \in S THEN RmResult(f[n], o[n]) ELSE f[n]]

CostAll(S, o) == Cardinality({n \in S : o[n] # "removed"})

\* min instead of max: the least recently modified candidate.
Oldest(f, S) == {c \in S : \A d \in S : f[c].mtime <= f[d].mtime}

\* max(candidates, key=lambda p: p.stat().st_mtime); ties go to whichever
\* entry iterdir() happened to list first.
Newest(f, S) == {c \in S : \A d \in S : f[c].mtime >= f[d].mtime}

(* ------------------------------ lock ----------------------------------- *)
\* release_lock: unlink the marker if this invocation acquired the lock
\* and the marker exists.
ReleaseLock(p, l) == IF lock_acquired[p] /\ l # 0 THEN 0 ELSE l

(* ------------------------------ init ----------------------------------- *)
ResolveIdle ==
    /\ warnings = <<>>
    /\ resolve_state = "pending"

ClassifyIdle ==
    /\ raw_type = [t |-> "missing", v |-> <<>>]
    /\ path_val = [t |-> "missing", v |-> <<>>]
    /\ classifier = "none"
    /\ normalized_type = "none"

\* No candidate has been read.
LoadIdle ==
    /\ idx = 0
    /\ objs = <<>>
    /\ all_projects = <<>>
    /\ skipped = <<>>
    /\ folio_url_to_id = <<>>
    /\ discovered = <<>>

\* No package directory is being looked at.
AssetIdle ==
    /\ tree = {}
    /\ images = <<>>
    /\ builds = <<>>
    /\ fallback = "none"
    /\ ref_path = <<>>
    /\ located = <<>>

\* projects.json has not been written.
SanitizeIdle ==
    /\ serializable_projects = <<>>
    /\ written = FALSE

\* No run is at the tail of main().
HostIdle ==
    /\ hostnames_config = {}
    /\ live_projects = <<>>
    /\ publish_step = "none"

\* No path: not a value of pathlib.Path.
NoPath == [anchor |-> FALSE, parts |-> <<<<>>>>]

\* No document is being given its base directory.
BaseIdle ==
    /\ proj_dir = NoPath
    /\ dirs = {}
    /\ base_dir = NoPath

\* No collection is being processed.
CollectionIdle ==
    /\ declared_items = <<>>
    /\ items_array = <<>>
    /\ collection_step = "declared"

\* The public directory before any invocation has started.
PublishInit ==
    /\ \E stale \in BOOLEAN :
        fs = [n \in Names |->
                IF n = Live THEN Complete(PrevBuild, 1)
                ELSE IF stale /\ n = Numbered(2) THEN Complete(StaleBuild, 0)
                ELSE Absent]
    /\ lock = 0
    /\ pc = [p \in Procs |-> "start"]
    /\ script = [p \in Procs |-> "none"]
    /\ lock_acquired = [p \in Procs |-> FALSE]
    /\ backup_path = [p \in Procs |-> None]
    /\ fsOps = [p \in Procs |-> {}]
    /\ clock = 2
    /\ faults = 0
    /\ renames = 0

Init ==
    /\ PublishInit
    /\ LoadIdle
    /\ ResolveIdle
    /\ ClassifyIdle
    /\ AssetIdle
    /\ SanitizeIdle
    /\ HostIdle
    /\ BaseIdle
    /\ CollectionIdle

\* The publish transaction at rest, no stale sibling in `public`.
PublishIdle == PublishInit /\ ~Exists(fs, Numbered(2))

(* ------------------------- repair_projects_dir ------------------------- *)
\* The possible results of one call: the resulting directories, how the
\* call ended and how many filesystem calls failed in it.
repair_projects_dir(sc, f) ==
    LET candidates == {n \in NumberedNames : Exists(f, n)} IN
    IF Exists(f, Live) \/ candidates = {}
    THEN {[fs |-> f, status |-> "nothing", cost |-> 0]}
    ELSE UNION {
        LET moved == Rename(f, chosen, Live)
            others == candidates \ {chosen}
        IN  (IF sc = "folio-prebuild"
             THEN {[fs |-> RmtreeAll(moved, others, o), status |-> "repaired",
                    cost |-> CostAll(others, o)] : o \in OutcomeMaps(moved, others)}
             ELSE {[fs |-> moved, status |-> "repaired", cost |-> 0]})
            \cup {[fs |-> moved, status |-> "retried", cost |-> 1]}
            \cup {[fs |-> f, status |-> "failed", cost |-> 2]}
        : chosen \in Newest(f, candidates)}

\* Positions at which the process has ended: its locals and its record of
\* calls are gone with it. What remains of a repair is its output, which
\* names the script; of a build, how it ended.
RepairExits == {"nothing_to_repair", "repaired", "repair_failed"}
BuildExits == {"lock_held", "aborted", "crashed", "manifest_failed",
               "rolled_back", "committed", "killed"}
Exited == RepairExits \cup BuildExits

\* The invocation moves to position np with the given locals.
Goto(p, np, sc, la, bp, ops) ==
    /\ pc' = [pc EXCEPT ![p] = np]
    /\ script' = [script EXCEPT ![p] = IF np \in BuildExits THEN "none" ELSE sc]
    /\ lock_acquired' = [lock_acquired EXCEPT ![p] = IF np \in Exited THEN FALSE ELSE la]
    /\ backup_path' = [backup_path EXCEPT ![p] = IF np \in Exited THEN None ELSE bp]
    /\ fsOps' = [fsOps EXCEPT ![p] = IF np \in Exited THEN {} ELSE fsOps[p] \cup ops]
    /\ UNCHANGED buildVars

\* main() of either script, started with --repair: run the repair and return.
RepairOnly(p) ==
    /\ pc[p] = "start"
    /\ \E sc \in Scripts : \E r \in repair_projects_dir(sc, fs) :
        /\ faults + r.cost <= MaxFaults
        /\ faults' = faults + r.cost
        /\ fs' = r.fs
        /\ Goto(p, IF r.status = "failed" THEN "repair_failed"
                   ELSE IF r.status = "nothing" THEN "nothing_to_repair"
                   ELSE "repaired", sc, FALSE, None, {})
    /\ UNCHANGED <<lock, clock, renames>>

\* main() of either script, started without --repair, up to acquire_lock:
\* folio-prebuild.py repairs automatically when the canonical folder is
\* missing; pre-build.py does not.
AutomaticRepair(p) ==
    /\ pc[p] = "start"
    /\ \E sc \in Scripts :
        IF sc = "folio-prebuild" /\ ~Exists(fs, Live)
        THEN \E r \in repair_projects_dir(sc, fs) :
                /\ faults + r.cost <= MaxFaults
                /\ faults' = faults + r.cost
                /\ fs' = r.fs
                /\ Goto(p, IF r.status = "failed" THEN "repair_failed" ELSE "acquire",
                        sc, FALSE, None, IF r.fs # fs THEN {"repair"} ELSE {})
        ELSE /\ Goto(p, "acquire", sc, FALSE, None, {})
             /\ UNCHANGED <<fs, faults>>
    /\ UNCHANGED <<lock, clock, renames>>

\* acquire_lock with O_CREAT only: an existing marker is overwritten.
AcquireLockNoExcl(p) ==
    /\ pc[p] = "acquire"
    /\ lock' = p
    /\ Goto(p, "prepare", script[p], TRUE, backup_path[p], {})
    /\ UNCHANGED <<fs, clock, faults, renames>>

\* acquire_lock that takes over the marker of an invocation that has ended.
AcquireLockStale(p) ==
    /\ pc[p] = "acquire"
    /\ IF lock = 0 \/ pc[lock] \in Exited
       THEN /\ lock' = p
            /\ Goto(p, "prepare", script[p], TRUE, backup_path[p], {})
       ELSE /\ Goto(p, "lock_held", script[p], lock_acquired[p], backup_path[p], {})
            /\ UNCHANGED lock
    /\ UNCHANGED <<fs, clock, faults, renames>>

\* acquire_lock: os.open(O_CREAT | O_EXCL); EEXIST is SystemExit.
AcquireLock(p) ==
    /\ pc[p] = "acquire"
    /\ IF lock = 0
       THEN /\ lock' = p
            /\ Goto(p, "prepare", script[p], TRUE, backup_path[p], {})
       ELSE /\ Goto(p, "lock_held", script[p], lock_acquired[p], backup_path[p], {})
            /\ UNCHANGED lock
    /\ UNCHANGED <<fs, clock, faults, renames>>

(* ------------------- prepare the existing projects folder -------------- *)
RemovedOps(o) == IF o = "untouched" THEN {} ELSE {"remove_live"}

\* folio-prebuild.py: rmtree first, rename to a backup when that fails.
PrepareFolio(p, f) ==
    UNION {
        IF o = "removed"
        THEN {[fs |-> [f EXCEPT ![Live] = Absent], cost |-> 0, next |-> "mktemp",
               backup |-> None, ops |-> {"remove_live"}]}
        ELSE LET g == [f EXCEPT ![Live] = RmResult(f[Live], o)] IN
             {[fs |-> Rename(g, Live, PrepBackup(p)), cost |-> 1, next |-> "mktemp",
               backup |-> PrepBackup(p), ops |-> RemovedOps(o) \cup {"rename_live"}],
              [fs |-> g, cost |-> 2, next |-> "aborted",
               backup |-> PrepBackup(p), ops |-> RemovedOps(o)]}
        : o \in RmOutcomesFor(f[Live])}

\* pre-build.py: rename to a backup first, rmtree when that fails.
PreparePreBuild(p, f) ==
    {[fs |-> Rename(f, Live, PrepBackup(p)), cost |-> 0, next |-> "mktemp",
      backup |-> PrepBackup(p), ops |-> {"rename_live"}]}
    \cup UNION {
        IF o = "removed"
        THEN {[fs |-> [f EXCEPT ![Live] = Absent], cost |-> 1, next |-> "mktemp",
               backup |-> None, ops |-> {"remove_live"}]}
        ELSE {[fs |-> [f EXCEPT ![Live] = RmResult(f[Live], o)], cost |-> 2,
               next |-> "aborted", backup |-> PrepBackup(p), ops |-> RemovedOps(o)]}
        : o \in RmOutcomesFor(f[Live])}

PrepareResults(p, f) ==
    IF ~Exists(f, Live)
    THEN {[fs |-> f, cost |-> 0, next |-> "mktemp", backup |-> backup_path[p], ops |-> {}]}
    ELSE IF script[p] = "folio-prebuild" THEN PrepareFolio(p, f)
    ELSE PreparePreBuild(p, f)

\* main(): the try block right after acquire_lock. When both calls fail the
\* lock is released and SystemExit ends the run.
PrepareExisting(p) ==
    /\ pc[p] = "prepare"
    /\ \E r \in PrepareResults(p, fs) :
        /\ faults + r.cost <= MaxFaults
        /\ faults' = faults + r.cost
        /\ fs' = r.fs
        /\ Goto(p, r.next, script[p], lock_acquired[p], r.backup, r.ops)
        /\ lock' = IF r.next = "aborted" THEN ReleaseLock(p, lock) ELSE lock
    /\ UNCHANGED <<clock, renames>>

\* main(): tempfile.mkdtemp and the reset of the locals, outside any try.
MakeTemp(p) ==
    /\ pc[p] = "mktemp"
    /\ \/ /\ fs' = [fs EXCEPT ![Tmp(p)] = Partial(NewBuild(p), clock)]
          /\ clock' = clock + 1
          /\ Goto(p, "build", script[p], lock_acquired[p], None, {"mkdtemp"})
          /\ UNCHANGED faults
       \/ /\ faults < MaxFaults
          /\ faults' = faults + 1
          /\ Goto(p, "crashed", script[p], lock_acquired[p], backup_path[p], {})
          /\ UNCHANGED <<fs, clock>>
    /\ UNCHANGED <<lock, renames>>

\* main(): collect_folio_files, the per-document loop and
\* resolve_folio_resources. Assets go into the temp tree only; an exception
\* of the discovery or of the resolver is not caught.
BuildIntoTemp(p) ==
    /\ pc[p] = "build"
    /\ \E raises \in BOOLEAN :
        Goto(p, IF raises THEN "crashed" ELSE "manifest", script[p],
             lock_acquired[p], backup_path[p], {})
    /\ UNCHANGED <<fs, lock, clock, faults, renames>>

\* main(): write projects.json into the temp dir; on failure the handler
\* removes the temp dir (best effort) and the finally releases the lock.
WriteManifest(p) ==
    /\ pc[p] = "manifest"
    /\ \/ /\ fs' = [fs EXCEPT ![Tmp(p)] = Complete(NewBuild(p), clock)]
          /\ clock' = clock + 1
          /\ Goto(p, "swap", script[p], lock_acquired[p], backup_path[p], {})
          /\ UNCHANGED <<faults, lock>>
       \/ \E o \in RmOutcomesFor(fs[Tmp(p)]) :
          LET cost == 1 + (IF o = "removed" THEN 0 ELSE 1) IN
          /\ faults + cost <= MaxFaults
          /\ faults' = faults + cost
          /\ fs' = [fs EXCEPT ![Tmp(p)] = RmResult(@, o)]
          /\ lock' = ReleaseLock(p, lock)
          /\ Goto(p, "manifest_failed", script[p], lock_acquired[p], backup_path[p], {})
          /\ UNCHANGED clock
    /\ UNCHANGED renames

(* --------------------------- swap into place --------------------------- *)
\* main(): remove the existing `public/projects`, or rename it to a backup
\* when the removal fails; RuntimeError (ok = FALSE) when both fail.
SwapRemoveOld(p, f) ==
    IF ~Exists(f, Live)
    THEN {[fs |-> f, cost |-> 0, bp |-> None, ok |-> TRUE, ops |-> {}]}
    ELSE UNION {
        IF o = "removed"
        THEN {[fs |-> [f EXCEPT ![Live] = Absent], cost |-> 0, bp |-> None,
               ok |-> TRUE, ops |-> {"remove_live"}]}
        ELSE LET g == [f EXCEPT ![Live] = RmResult(f[Live], o)] IN
             {[fs |-> Rename(g, Live, SwapBackup(p)), cost |-> 1, bp |-> SwapBackup(p),
               ok |-> TRUE, ops |-> RemovedOps(o) \cup {"rename_live"}],
              [fs |-> g, cost |-> 2, bp |-> SwapBackup(p),
               ok |-> FALSE, ops |-> RemovedOps(o)]}
        : o \in RmOutcomesFor(f[Live])}

\* Rollback handlers that clear the backups away instead of restoring one.
RollbackDropsBackups(p, f, bp) ==
    {[fs |-> RmtreeAll(f, BackupNames, [n \in BackupNames |-> "removed"]),
      cost |-> 0]}

\* The two rollback handlers of main(): restore the backup when it exists
\* and the target does not (tried by the inner handler, and again by the
\* outer one), and remove the temp dir in the inner handler.
Rollback(p, f, bp) ==
    LET restorable == bp # None /\ Exists(f, bp) /\ ~Exists(f, Live)
        restored == IF restorable
                    THEN {[fs |-> Rename(f, bp, Live), cost |-> 0],
                          [fs |-> Rename(f, bp, Live), cost |-> 1],
                          [fs |-> f, cost |-> 2]}
                    ELSE {[fs |-> f, cost |-> 0]}
    IN  UNION {
            IF Exists(r.fs, Tmp(p))
            THEN {[fs |-> [r.fs EXCEPT ![Tmp(p)] = RmResult(@, o)],
                   cost |-> r.cost + (IF o = "removed" THEN 0 ELSE 1)]
                  : o \in RmOutcomesFor(r.fs[Tmp(p)])}
            ELSE {r}
        : r \in restored}

\* delete_old_backups: rmtree of every `projects_backup*` directory.
delete_old_backups(f) ==
    LET Removed(old) ==
            {[fs |-> RmtreeAll(f, old, o), cost |-> CostAll(old, o)]
             : o \in OutcomeMaps(f, old)}
    IN  Removed({n \in BackupNames : Exists(f, n)})

\* After the rename of the temp dir: remove this run's backup, then the
\* older ones.
RemoveBackups(f, bp) ==
    LET first == IF bp # None /\ Exists(f, bp)
                 THEN {[fs |-> [f EXCEPT ![bp] = RmResult(@, o)],
                        cost |-> IF o = "removed" THEN 0 ELSE 1]
                       : o \in RmOutcomesFor(f[bp])}
                 ELSE {[fs |-> f, cost |-> 0]}
    IN  UNION {{[fs |-> d.fs, cost |-> r.cost + d.cost] : d \in delete_old_backups(r.fs)}
               : r \in first}

SwapResults(p, f) ==
    UNION {
        IF ~a.ok
        THEN \* outer handler: the backup was never created, the temp dir is left
             {[fs |-> a.fs, cost |-> a.cost, bp |-> a.bp, next |-> "rolled_back",
               ops |-> a.ops]}
        ELSE \* temp_public_projects_root.rename(target), os.replace as fallback
             {[fs |-> c.fs, cost |-> a.cost + c.cost, bp |-> a.bp,
               next |-> IF script[p] = "folio-prebuild" THEN "cleanup1" ELSE "committed",
               ops |-> a.ops \cup {"install"}]
              : c \in RemoveBackups(Rename(a.fs, Tmp(p), Live), a.bp)}
             \cup
             {[fs |-> b.fs, cost |-> a.cost + 1 + b.cost, bp |-> a.bp,
               next |-> "rolled_back", ops |-> a.ops]
              : b \in Rollback(p, a.fs, a.bp)}
        : a \in SwapRemoveOld(p, f)}

\* main(): the swap, from `backup_path = None` to delete_old_backups, with
\* both rollback handlers; pre-build.py ends here, through the finally.
SwapIntoPlace(p) ==
    /\ pc[p] = "swap"
    /\ \E r \in SwapResults(p, fs) :
        /\ faults + r.cost <= MaxFaults
        /\ faults' = faults + r.cost
        /\ fs' = r.fs
        /\ Goto(p, r.next, script[p], lock_acquired[p], r.bp, r.ops)
        /\ lock' = IF r.next = "cleanup1" THEN lock ELSE ReleaseLock(p, lock)
    /\ UNCHANGED <<clock, renames>>

(* ------------------------- post-swap cleanup --------------------------- *)
NextRound(c) ==
    IF c = "cleanup1" THEN "cleanup2" ELSE IF c = "cleanup2" THEN "cleanup3" ELSE "verify"

\* remove_projects_siblings, one round of the loop of three: rmtree of every
\* directory whose name starts with 'projects' and is not 'projects'.
remove_projects_siblings(p) ==
    /\ pc[p] \in {"cleanup1", "cleanup2", "cleanup3"}
    /\ LET Round(stray) ==
            \E o \in OutcomeMaps(fs, stray) :
                /\ faults + CostAll(stray, o) <= MaxFaults
                /\ faults' = faults + CostAll(stray, o)
                /\ fs' = RmtreeAll(fs, stray, o)
                /\ Goto(p, NextRound(pc[p]), script[p], lock_acquired[p],
                        backup_path[p], IF fs' # fs THEN {"cleanup"} ELSE {})
       IN  Round({n \in Names \ {Live} : Exists(fs, n)})
    /\ UNCHANGED <<lock, clock, renames>>

\* The possible results of verify_and_repair_post_build.
VerifyResults(f) ==
    LET candidates == {n \in Names \ {Live} : Exists(f, n)} IN
    IF Exists(f, Live) \/ candidates = {}
    THEN {[fs |-> f, cost |-> 0]}
    ELSE UNION {
        LET moved == Rename(f, chosen, Live)
            others == candidates \ {chosen}
        IN  {[fs |-> RmtreeAll(moved, others, o), cost |-> CostAll(others, o)]
             : o \in OutcomeMaps(moved, others)}
            \cup {[fs |-> f, cost |-> 1]}
        : chosen \in Newest(f, candidates)}

\* main(): the final verification, then the finally that releases the lock.
verify_and_repair_post_build(p) ==
    /\ pc[p] = "verify"
    /\ \E r \in VerifyResults(fs) :
        /\ faults + r.cost <= MaxFaults
        /\ faults' = faults + r.cost
        /\ fs' = r.fs
    /\ lock' = ReleaseLock(p, lock)
    /\ Goto(p, "committed", script[p], lock_acquired[p], backup_path[p], {})
    /\ UNCHANGED <<clock, renames>>

(* ----------------------------- environment ----------------------------- *)
\* The process is terminated from outside while it holds the lock: no
\* handler and no finally runs. (Before acquire_lock it holds nothing.)
Kill(p) ==
    /\ pc[p] \in {"prepare", "mktemp", "build", "manifest", "swap",
                 "cleanup1", "cleanup2", "cleanup3", "verify"}
    /\ Goto(p, "killed", script[p], lock_acquired[p], backup_path[p], {})
    /\ UNCHANGED <<fs, lock, clock, faults, renames>>

FreeNumbers(f) == {n \in 2..MaxSiblingNo : ~Exists(f, Numbered(n))}

\* A cloud-sync service renames `projects` to the first free `projects N`.
ExternalRename ==
    /\ renames < MaxExternalRenames
    /\ Exists(fs, Live)
    /\ FreeNumbers(fs) # {}
    /\ LET n == CHOOSE k \in FreeNumbers(fs) : \A j \in FreeNumbers(fs) : k <= j
       IN fs' = Rename(fs, Live, Numbered(n))
    /\ renames' = renames + 1
    /\ UNCHANGED <<lock, pc, script, lock_acquired, backup_path,
                   fsOps, clock, faults>>
    /\ UNCHANGED buildVars

Next ==
    \/ \E p \in Procs :
        \/ RepairOnly(p)
        \/ AutomaticRepair(p)
        \/ AcquireLock(p)
        \/ PrepareExisting(p)
        \/ MakeTemp(p)
        \/ BuildIntoTemp(p)
        \/ WriteManifest(p)
        \/ SwapIntoPlace(p)
        \/ remove_projects_siblings(p)
        \/ verify_and_repair_post_build(p)
        \/ Kill(p)
    \/ ExternalRename

(* ============================ document loop ============================ *)
(* ------------------------------ strings -------------------------------- *)
\* A Python str is a sequence of one-character strings.
Small == <<"a", "b", "c", "d", "e", "f", "g", "h", "i", "j", "k", "l", "m",
           "n", "o", "p", "q", "r", "s", "t", "u", "v", "w", "x", "y", "z">>
Capital == <<"A", "B", "C", "D", "E", "F", "G", "H", "I", "J", "K", "L", "M",
             "N", "O", "P", "Q", "R", "S", "T", "U", "V", "W", "X", "Y", "Z">>
Digit == {"0", "1", "2", "3", "4", "5", "6", "7", "8", "9"}

Range(s) == {s[i] : i \in DOMAIN s}

\* str.lower()
LowerMap ==
    [c \in Range(Capital) |-> Small[CHOOSE i \in DOMAIN Capital : Capital[i] = c]]

LowerChar(c) == IF c \in DOMAIN LowerMap THEN LowerMap[c] ELSE c

Lower(s) == [i \in DOMAIN s |-> LowerChar(s[i])]

IsSpace(c) == c \in {" ", "\t", "\n"}

\* str.strip(chars): drop the leading and trailing characters that are in cs.
StripSet(s, cs) ==
    LET keep == {i \in DOMAIN s : s[i] \notin cs} IN
    IF keep = {} THEN <<>>
    ELSE LET lo == CHOOSE i \in keep : \A j \in keep : i <= j
             hi == CHOOSE i \in keep : \A j \in keep : i >= j
         IN  SubSeq(s, lo, hi)

Strip(s) == StripSet(s, {" ", "\t", "\n"})

\* str.startswith(prefix)
StartsWith(s, pre) == Len(pre) <= Len(s) /\ SubSeq(s, 1, Len(pre)) = pre

\* str.endswith(suffix)
EndsWith(s, suf) ==
    Len(suf) <= Len(s) /\ SubSeq(s, Len(s) - Len(suf) + 1, Len(s)) = suf

\* `sub in s`
Contains(s, sub) ==
    \E i \in 0..(Len(s) - Len(sub)) : SubSeq(s, i + 1, i + Len(sub)) = sub

\* The \w class of re: letters, digits and the underscore.
IsWord(c) == c \in Range(Small) \/ c \in Range(Capital) \/ c \in Digit \/ c = "_"

\* re.sub(r"[\s-]+", "_", s): every run of whitespace and hyphens becomes
\* one underscore.
RECURSIVE SubRuns(_, _)
SubRuns(s, inRun) ==
    IF s = <<>> THEN <<>>
    ELSE IF IsSpace(Head(s)) \/ Head(s) = "-"
         THEN (IF inRun THEN <<>> ELSE <<"_">>) \o SubRuns(Tail(s), TRUE)
         ELSE <<Head(s)>> \o SubRuns(Tail(s), FALSE)

(* ---------------------------- JSON values ------------------------------ *)
\* A value read by json.loads, or the absence of a key. The text of a str
\* is in v; a number is kept by its decimal digits.
Missing == [t |-> "missing", v |-> <<>>]
JNull == [t |-> "null", v |-> <<>>]
JStr(s) == [t |-> "str", v |-> s]
JInt(d) == [t |-> "int", v |-> d]
JTrue == [t |-> "bool", v |-> <<"T", "r", "u", "e">>]
JFalse == [t |-> "bool", v |-> <<"F", "a", "l", "s", "e">>]

\* bool(x), as in `if x` and `x or y`; dict.get gives None for a missing key.
Truthy(x) ==
    CASE x.t = "str" -> x.v # <<>>
      [] x.t = "int" -> x.v # <<"0">>
      [] x.t = "bool" -> x = JTrue
      [] OTHER -> FALSE

\* x or y
Or(x, y) == IF Truthy(x) THEN x ELSE y

\* str(x) inside an f-string
Format(x) == IF x.t \in {"null", "missing"} THEN <<"N", "o", "n", "e">> ELSE x.v

\* The value raised by a failing call.
Raised == [t |-> "raised", v |-> <<>>]

(* ------------------------------ slugify -------------------------------- *)
\* slugify(name): (name or "").strip().lower(), drop what is neither a word
\* character, whitespace nor a hyphen, join runs of whitespace and hyphens
\* with "_", strip underscores; "untitled" when nothing is left. A truthy
\* name that is not a str has no strip(): AttributeError.
slugify(name) ==
    IF Truthy(name) /\ name.t # "str" THEN Raised
    ELSE LET s0 == Lower(Strip(IF Truthy(name) THEN name.v ELSE <<>>))
             s1 == SelectSeq(s0, LAMBDA c : IsWord(c) \/ IsSpace(c) \/ c = "-")
             s2 == StripSet(SubRuns(s1, FALSE), {"_"})
         IN  JStr(IF s2 = <<>> THEN <<"u", "n", "t", "i", "t", "l", "e", "d">>
                  ELSE s2)

\* make_project_folder_name(title, project_id): f"{slugify(title)}_{project_id}"
make_project_folder_name(title, project_id) ==
    LET slug == slugify(title) IN
    IF slug = Raised THEN Raised
    ELSE JStr(slug.v \o <<"_">> \o Format(project_id))

(* --------------------------- source documents -------------------------- *)
\* The .folio candidates of the source tree in the order collect_folio_files
\* yields them, each with the name of its directory (proj_dir.name).
Candidates == <<
    [path |-> "Alpha.folio/content.json",
     dir |-> <<"A", "l", "p", "h", "a", ".", "f", "o", "l", "i", "o">>],
    [path |-> "work/beta.folio",
     dir |-> <<"w", "o", "r", "k">>] >>

MaxObjs == 2   \* objects in the array of one document

\* The kinds of asset a document refers to, in the order main() copies them.
AssetKinds == {"thumbnail", "image", "resource", "item_file", "item_thumbnail"}

\* For each kind: no reference, a reference to a file that shutil.copy2
\* copies, or a reference to a file on which shutil.copy2 raises.
NoAssets == [k \in AssetKinds |-> "none"]

Doc(id, title, isPublic, visibility, filePath, assets) ==
    [dict |-> TRUE, id |-> id, title |-> title, isPublic |-> isPublic,
     visibility |-> visibility, filePath |-> filePath, assets |-> assets]

\* An array element that is not an object, e.g. a string.
NotADict == [Doc(Missing, Missing, Missing, Missing, Missing, NoAssets)
                EXCEPT !.dict = FALSE]

Demo == <<"D", "e", "m", "o">>
Public == <<"p", "u", "b", "l", "i", "c">>
Private == <<"p", "r", "i", "v", "a", "t", "e">>
P1 == <<"p", "1">>
DemoPath == <<"f", "i", "l", "e", ":", "/", "/", "/", "d", "/", "D", "e", "m", "o",
              ".", "f", "o", "l", "i", "o", "/">>

\* Documents a candidate may hold.
ObjectPool == {
    Doc(JStr(P1), JStr(Demo), Missing, Missing, JStr(DemoPath),
        [NoAssets EXCEPT !["thumbnail"] = "ok", !["image"] = "ok"]),
    Doc(Missing, JStr(<<" ", "M", "y", "-", "A", "p", "p", " ", "2", "!">>),
        JTrue, JStr(Public), Missing,
        [k \in AssetKinds |-> IF k = "thumbnail" THEN "none" ELSE "fails"]),
    Doc(JStr(<<>>), JStr(<<"?", "!">>), JInt(<<"0">>), Missing, Missing, NoAssets),
    Doc(Missing, JNull, Missing, JNull, Missing, NoAssets),
    Doc(JStr(<<"p", "2">>), JInt(<<"5">>), Missing, Missing, Missing, NoAssets),
    Doc(JStr(<<"p", "3">>), JStr(Demo), JFalse, Missing, JStr(DemoPath), NoAssets),
    Doc(JInt(<<"7">>), JStr(Demo), Missing, JStr(Private), Missing, NoAssets),
    Doc(JStr(<<"p", "4">>), JStr(Demo), Missing, Missing, Missing,
        [NoAssets EXCEPT !["thumbnail"] = "fails"]),
    NotADict }

Arrays(pool, n) == UNION {[1..k -> pool] : k \in 0..n}

\* What read_text and json.loads give for a candidate: a parse error, one
\* object, or an array.
FileContents(pool, n) ==
    {[parse |-> "error", objs |-> <<>>]}
    \cup {[parse |-> "object", objs |-> <<o>>] : o \in pool}
    \cup {[parse |-> "array", objs |-> a] : a \in Arrays(pool, n)}

(* ------------------------- one document object ------------------------- *)
\* Inclusion rules: `"isPublic" in obj and obj.get("isPublic") is False`,
\* `"visibility" in obj and obj.get("visibility") != "public"`.
SkippedByIsPublic(obj) == obj.isPublic # Missing /\ obj.isPublic = JFalse
SkippedByVisibility(obj) == obj.visibility # Missing /\ obj.visibility # JStr(Public)

\* The id of the object after `if not obj.get("id")`.
AssignedId(obj, dir) ==
    IF Truthy(obj.id) THEN obj.id ELSE slugify(Or(obj.title, JStr(dir)))

\* obj.get("title", "")
TitleOf(obj) == IF obj.title = Missing THEN JStr(<<>>) ELSE obj.title

\* The copy helpers: copy_thumbnail_for_project calls shutil.copy2 bare;
\* copy_images_for_project, copy_resources_for_project and
\* copy_collection_for_project wrap it in try/except and go on.
CopyRaises(obj) == obj.assets["thumbnail"] = "fails"

CopiedAssets(obj) == {k \in AssetKinds : obj.assets[k] = "ok"}

\* One pass of the body of `for obj in objs`: how it ends, the record
\* appended, and the entry added to folio_url_to_id.
ProcessObject(obj, dir, src) ==
    LET Outcome(id, folder) ==
            [status |-> IF ~obj.dict THEN "not_dict"
                        ELSE IF id = Raised THEN "raised"
                        ELSE IF SkippedByIsPublic(obj) THEN "isPublic=false"
                        ELSE IF SkippedByVisibility(obj) THEN "visibility"
                        ELSE IF CopyRaises(obj) \/ folder = Raised THEN "raised"
                        ELSE "appended",
             mapping |-> IF obj.dict /\ id # Raised /\ Truthy(id) /\ Truthy(obj.filePath)
                         THEN {<<obj.filePath, id>>} ELSE {},
             record |-> [src |-> src, id |-> id, folderName |-> folder,
                         copied |-> CopiedAssets(obj)]]
        WithId(id) == Outcome(id, make_project_folder_name(TitleOf(obj), id))
    IN  WithId(AssignedId(obj, dir))

\* folio_url_to_id[file_path] = project_id: a dict keeps the order in which
\* its keys were first inserted.
Put(map, entries) ==
    IF entries = {} THEN map
    ELSE LET e == CHOOSE x \in entries : TRUE IN
         IF \E k \in DOMAIN map : map[k][1] = e[1]
         THEN [k \in DOMAIN map |-> IF map[k][1] = e[1] THEN e ELSE map[k]]
         ELSE Append(map, e)

(* --------------------------- one candidate ----------------------------- *)
\* The loop over the objects of one candidate; an exception leaves it.
RECURSIVE ProcessObjects(_, _, _, _)
ProcessObjects(os, i, c, acc) ==
    IF i > Len(os) THEN acc
    ELSE LET After(r, mapped) ==
                CASE r.status = "not_dict" -> ProcessObjects(os, i + 1, c, acc)
                  [] r.status = "raised" -> [mapped EXCEPT !.raised = TRUE]
                  [] r.status \in {"isPublic=false", "visibility"} ->
                        ProcessObjects(os, i + 1, c,
                            [mapped EXCEPT !.skipped = Append(@, <<c, r.status>>)])
                  [] OTHER ->
                        ProcessObjects(os, i + 1, c,
                            [mapped EXCEPT !.projects = Append(@, r.record),
                                           !.acted_any = TRUE])
             With(r) == After(r, [acc EXCEPT !.map = Put(acc.map, r.mapping)])
         IN  With(ProcessObject(os[i], Candidates[c].dir, <<c, i>>))

\* One pass of `for idx, folio_path in enumerate(candidates, 1)`: read and
\* parse the candidate, process its objects, record why it was skipped.
ProcessCandidate(contents) ==
    /\ idx < Len(Candidates)
    /\ \E file \in contents :
        LET Finish(c, acc) ==
                /\ idx' = c
                /\ objs' = file.objs
                /\ all_projects' = acc.projects
                /\ skipped' = acc.skipped \o
                        (IF file.parse = "error"
                         THEN <<<<c, "error: json parse failed">>>>
                         ELSE IF acc.raised THEN <<<<c, "error">>>>
                         ELSE IF ~acc.acted_any
                              THEN <<<<c, "no valid project objects found">>>>
                         ELSE <<>>)
                /\ folio_url_to_id' = acc.map
                /\ UNCHANGED discovered
        IN  Finish(idx + 1,
                   ProcessObjects(file.objs, 1, idx + 1,
                        [projects |-> all_projects, skipped |-> skipped,
                         map |-> folio_url_to_id, acted_any |-> FALSE,
                         raised |-> FALSE]))
    /\ UNCHANGED exceptLoad

LoadInit ==
    PublishIdle /\ LoadIdle /\ ResolveIdle /\ ClassifyIdle /\ AssetIdle /\ SanitizeIdle /\ HostIdle /\ BaseIdle /\ CollectionIdle

LoadNext == ProcessCandidate(FileContents(ObjectPool, MaxObjs))

\* One build reading the candidates of its source tree.
LoadSpec == LoadInit /\ [][LoadNext]_vars

(* ====================== resolve_folio_resources ======================== *)
\* The percent escapes the source documents use.
PercentCodes == {<<<<"%", "2", "0">>, " ">>, <<<<"%", "2", "F">>, "/">>, <<<<"%", "2", "f">>, "/">>,
                 <<<<"%", "2", "E">>, ".">>, <<<<"%", "2", "e">>, ".">>}

\* urllib.parse.unquote
RECURSIVE unquote(_)
unquote(s) ==
    IF s = <<>> THEN <<>>
    ELSE IF Len(s) >= 3 /\ \E pc3 \in PercentCodes : pc3[1] = SubSeq(s, 1, 3)
         THEN <<(CHOOSE pc3 \in PercentCodes : pc3[1] = SubSeq(s, 1, 3))[2]>>
                \o unquote(SubSeq(s, 4, Len(s)))
         ELSE <<Head(s)>> \o unquote(Tail(s))

\* The part of s before the first character that is in cs.
Before(s, cs) ==
    LET hits == {i \in DOMAIN s : s[i] \in cs} IN
    IF hits = {} THEN s
    ELSE SubSeq(s, 1, (CHOOSE i \in hits : \A j \in hits : i <= j) - 1)

\* urlparse(url).path of a URL with a scheme: what follows the authority,
\* up to the query or the fragment.
UrlPath(url) ==
    LET rest == SubSeq(url, Len(Before(url, {":"})) + 4, Len(url))
        netloc == Before(rest, {"/", "?", "#"})
    IN  Before(SubSeq(rest, Len(netloc) + 1, Len(rest)), {"?", "#"})

\* str.rstrip(chars)
RStripSet(s, cs) ==
    LET keep == {i \in DOMAIN s : s[i] \notin cs} IN
    IF keep = {} THEN <<>>
    ELSE SubSeq(s, 1, CHOOSE i \in keep : \A j \in keep : i >= j)

\* normalize_url: "" for a falsy url; the decoded path of a file:// URL;
\* trailing slashes removed. A truthy url that is not a str has no
\* startswith(): AttributeError.
normalize_url(url) ==
    IF ~Truthy(url) THEN JStr(<<>>)
    ELSE IF url.t # "str" THEN Raised
    ELSE JStr(RStripSet(IF StartsWith(url.v, <<"f", "i", "l", "e", ":", "/", "/">>)
                        THEN unquote(UrlPath(url.v)) ELSE url.v, {"/"}))

\* normalized_folio_map: later entries of folio_url_to_id overwrite earlier
\* ones that normalize to the same key.
RECURSIVE normalized_folio_map(_)
normalized_folio_map(map) ==
    IF map = <<>> THEN {}
    ELSE LET last == map[Len(map)]
             key == normalize_url(last[1])
         IN  {<<key, last[2]>>}
             \cup {e \in normalized_folio_map(SubSeq(map, 1, Len(map) - 1)) :
                        e[1] # key}

InMap(nmap, key) == \E e \in nmap : e[1] = key
Lookup(nmap, key) == (CHOOSE e \in nmap : e[1] = key)[2]

Folio == <<"f", "o", "l", "i", "o">>
LocalLink == JStr(<<"l", "o", "c", "a", "l", "-", "l", "i", "n", "k">>)
ProjectsUrl(id) == JStr(<<"/", "p", "r", "o", "j", "e", "c", "t", "s", "/">> \o Format(id))

\* A resource of a document or of a collection item: a dict with type,
\* category and url, something that is not a dict, or no resource at all.
Ref(type, category, url) ==
    [is |-> "dict", type |-> type, category |-> category, url |-> url, src |-> 0]
NotADictRef == [Ref(Missing, Missing, Missing) EXCEPT !.is = "other"]
NoResource == [Ref(Missing, Missing, Missing) EXCEPT !.is = "absent"]

\* is_folio_resource
is_folio_resource(res) ==
    /\ res.is = "dict"
    /\ \/ res.type.t = "str" /\ Lower(res.type.v) = Folio
       \/ res.category.t = "str" /\ Lower(res.category.v) = Folio

\* res.get('url', '')
UrlOf(x) == IF x.url = Missing THEN JStr(<<>>) ELSE x.url

\* One folio resource: rewritten on a hit; on a miss dropped with a warning.
ResolveResource(res, nmap, where) ==
    LET With(norm) ==
            IF ~is_folio_resource(res)
            THEN [keep |-> TRUE, res |-> res, warnings |-> <<>>, raised |-> FALSE,
                  hit |-> FALSE]
            ELSE IF norm = Raised
            THEN [keep |-> TRUE, res |-> res, warnings |-> <<>>, raised |-> TRUE,
                  hit |-> FALSE]
            ELSE IF InMap(nmap, norm)
            THEN [keep |-> TRUE, raised |-> FALSE, warnings |-> <<>>, hit |-> TRUE,
                  res |-> [res EXCEPT !.type = LocalLink,
                                      !.url = ProjectsUrl(Lookup(nmap, norm))]]
            ELSE [keep |-> FALSE, res |-> res, raised |-> FALSE, hit |-> FALSE,
                  warnings |-> <<[where |-> where, src |-> res.src,
                                  url |-> UrlOf(res)]>>]
    IN  With(normalize_url(UrlOf(res)))

\* The loop over project['resources'].
RECURSIVE ResolveResources(_, _)
ResolveResources(rs, nmap) ==
    IF rs = <<>> THEN [out |-> <<>>, warnings |-> <<>>, raised |-> FALSE]
    ELSE LET Join(r, rest) ==
                IF r.raised THEN [out |-> <<>>, warnings |-> <<>>, raised |-> TRUE]
                ELSE [out |-> (IF r.keep THEN <<r.res>> ELSE <<>>) \o rest.out,
                      warnings |-> r.warnings \o rest.warnings,
                      raised |-> rest.raised]
         IN  Join(ResolveResource(Head(rs), nmap, "resource"),
                  ResolveResources(Tail(rs), nmap))

\* A collection item: its type, its url and its resource.
Item(type, url, resource) == [type |-> type, url |-> url, resource |-> resource, src |-> 0]

\* One collection item: first the item itself when its type is folio (a
\* miss leaves the item in place, warned about only if it has a url), then
\* its resource (a miss deletes the resource from the item).
ResolveItem(item, nmap) ==
    LET isFolio == item.type.t = "str" /\ Lower(item.type.v) = Folio
        With(norm, r) ==
            LET itemHit == isFolio /\ norm # Raised /\ Truthy(norm) /\ InMap(nmap, norm)
                Result(item1) ==
                    [item |-> IF ~r.keep THEN [item1 EXCEPT !.resource = NoResource]
                              ELSE IF r.hit
                              THEN [item1 EXCEPT !.resource = r.res,
                                                 !.url = IF item1.url # Missing
                                                         THEN r.res.url ELSE item1.url]
                              ELSE item1,
                     warnings |-> (IF isFolio /\ ~itemHit /\ Truthy(UrlOf(item))
                                   THEN <<[where |-> "item", src |-> item.src,
                                           url |-> UrlOf(item)]>>
                                   ELSE <<>>) \o r.warnings,
                     raised |-> FALSE]
            IN  IF (isFolio /\ norm = Raised) \/ r.raised
                THEN [item |-> item, warnings |-> <<>>, raised |-> TRUE]
                ELSE Result(IF itemHit
                            THEN [item EXCEPT !.type = LocalLink,
                                              !.url = ProjectsUrl(Lookup(nmap, norm))]
                            ELSE item)
    IN  With(normalize_url(UrlOf(item)),
             ResolveResource(item.resource, nmap, "item resource"))

RECURSIVE ResolveItems(_, _)
ResolveItems(items, nmap) ==
    IF items = <<>> THEN [out |-> <<>>, warnings |-> <<>>, raised |-> FALSE]
    ELSE LET Join(r, rest) ==
                IF r.raised THEN [out |-> <<>>, warnings |-> <<>>, raised |-> TRUE]
                ELSE [out |-> <<r.item>> \o rest.out,
                      warnings |-> r.warnings \o rest.warnings,
                      raised |-> rest.raised]
         IN  Join(ResolveItem(Head(items), nmap), ResolveItems(Tail(items), nmap))

MaxRefs == 2    \* resources of one document
MaxItems == 1   \* items of one collection

GonePath == <<"f", "i", "l", "e", ":", "/", "/", "/", "d", "/", "G", "o", "n", "e", ".", "f", "o", "l", "i", "o">>

\* Resources a document may list.
RefPool == {
    Ref(JStr(Folio), Missing, JStr(DemoPath)),
    Ref(JStr(<<"F", "o", "l", "i", "o">>), Missing, JStr(GonePath)),
    Ref(JStr(<<"l", "i", "n", "k">>), JStr(Folio), JStr(
        <<"f", "i", "l", "e", ":", "/", "/", "l", "o", "c", "a", "l", "h", "o", "s", "t", "/", "d", "/", "D", "e", "m", "o", "%", "2", "E", "f", "o", "l", "i", "o", "/">>)),
    Ref(JStr(<<"l", "i", "n", "k">>), Missing, JStr(GonePath)),
    Ref(JStr(Folio), Missing, JInt(<<"7">>)),
    NotADictRef }

\* Collection items as copy_collection_for_project leaves them: the type
\* is the one determine_collection_item_type returned.
ItemPool ==
    {Item(JStr(type), url, res) :
        type \in {Folio, <<"i", "m", "a", "g", "e">>},
        url \in {Missing, JStr(DemoPath), JStr(GonePath)},
        res \in {NoResource, Ref(JStr(Folio), Missing, JStr(DemoPath)),
                 Ref(Missing, JStr(<<"F", "O", "L", "I", "O">>), JStr(GonePath))}}

\* The elements of a list, each with its position.
Numbered1(s) == [j \in DOMAIN s |-> [s[j] EXCEPT !.src = j]]

\* The document loop is over: one published document with its resources
\* and the items of its collection, and the map of declared package paths.
ResolveInit ==
    /\ PublishIdle
    /\ idx = Len(Candidates)
    /\ objs = <<>>
    /\ skipped = <<>>
    /\ folio_url_to_id = <<<<JStr(DemoPath), JStr(P1)>>>>
    /\ discovered = <<>>
    /\ \E rs \in Arrays(RefPool, MaxRefs) : \E items \in Arrays(ItemPool, MaxItems) :
        all_projects =
            <<[title |-> Demo, resources |-> Numbered1(rs),
               items |-> [j \in DOMAIN items |->
                            [items[j] EXCEPT !.src = j, !.resource.src = j]]]>>
    /\ ResolveIdle
    /\ ClassifyIdle
    /\ AssetIdle
    /\ SanitizeIdle
    /\ HostIdle
    /\ BaseIdle
    /\ CollectionIdle

\* resolve_folio_resources(all_projects, folio_url_to_id) applied to one
\* project.
ResolveProject(project, nmap) ==
    LET Join(rs, items) ==
            [project |-> [project EXCEPT !.resources = rs.out, !.items = items.out],
             warnings |-> rs.warnings \o items.warnings,
             raised |-> rs.raised \/ items.raised]
    IN  Join(ResolveResources(project.resources, nmap),
             ResolveItems(project.items, nmap))

RECURSIVE ResolveProjects(_, _)
ResolveProjects(projects, nmap) ==
    IF projects = <<>> THEN [out |-> <<>>, warnings |-> <<>>, raised |-> FALSE]
    ELSE LET Join(r, rest) ==
                [out |-> <<r.project>> \o rest.out,
                 warnings |-> r.warnings \o rest.warnings,
                 raised |-> r.raised \/ rest.raised]
         IN  Join(ResolveProject(Head(projects), nmap),
                  ResolveProjects(Tail(projects), nmap))

\* `all_projects = resolve_folio_resources(all_projects, folio_url_to_id)`;
\* an exception raised inside is caught nowhere and ends the build.
resolve_folio_resources ==
    /\ resolve_state = "pending"
    /\ LET Finish(nmap, r) ==
                IF InMap(nmap, Raised) \/ r.raised
                THEN /\ resolve_state' = "raised"
                     /\ UNCHANGED <<all_projects, warnings>>
                ELSE /\ resolve_state' = "returned"
                     /\ all_projects' = r.out
                     /\ warnings' = r.warnings
           WithMap(nmap) == Finish(nmap, ResolveProjects(all_projects, nmap))
       IN  WithMap(normalized_folio_map(folio_url_to_id))
    /\ UNCHANGED exceptResolve

ResolveNext == resolve_folio_resources

ResolveSpec == ResolveInit /\ [][ResolveNext]_vars

(* ================= determine_collection_item_type ====================== *)

\* The extension tables of the scripts.

IMAGE_EXTS ==
    {<<".", "p", "n", "g">>,
    <<".", "j", "p", "g">>,
    <<".", "j", "p", "e", "g">>,
    <<".", "g", "i", "f">>,
    <<".", "w", "e", "b", "p">>,
    <<".", "b", "m", "p">>,
    <<".", "t", "i", "f", "f">>}

IMAGE_EXTS_FULL ==
    IMAGE_EXTS \cup {<<".", "s", "v", "g">>,
    <<".", "h", "e", "i", "c">>,
    <<".", "a", "v", "i", "f">>}

VIDEO_EXTS ==
    {<<".", "m", "o", "v">>,
    <<".", "m", "p", "4">>,
    <<".", "w", "e", "b", "m">>,
    <<".", "m", "k", "v">>,
    <<".", "a", "v", "i">>,
    <<".", "f", "l", "v">>,
    <<".", "o", "g", "v">>,
    <<".", "w", "m", "v">>,
    <<".", "m", "p", "g">>,
    <<".", "m", "p", "e", "g">>}

AUDIO_EXTS ==
    {<<".", "m", "p", "3">>,
    <<".", "w", "a", "v">>,
    <<".", "a", "a", "c">>,
    <<".", "o", "g", "g">>,
    <<".", "m", "4", "a">>,
    <<".", "f", "l", "a", "c">>,
    <<".", "o", "p", "u", "s">>}

MODEL_EXTS ==
    {<<".", "g", "l", "b">>,
    <<".", "g", "l", "t", "f">>,
    <<".", "o", "b", "j">>,
    <<".", "f", "b", "x">>,
    <<".", "s", "t", "l">>,
    <<".", "d", "a", "e">>,
    <<".", "3", "d", "s">>,
    <<".", "p", "l", "y">>}

GAME_EXTS ==
    {<<".", "h", "t", "m", "l">>,
    <<".", "h", "t", "m">>,
    <<".", "u", "n", "i", "t", "y", "w", "e", "b">>,
    <<".", "w", "a", "s", "m">>}

TEXT_EXTS ==
    {<<".", "m", "d">>,
    <<".", "m", "a", "r", "k", "d", "o", "w", "n">>,
    <<".", "t", "x", "t">>,
    <<".", "t", "e", "x">>,
    <<".", "c", "s", "v">>,
    <<".", "j", "s", "o", "n">>,
    <<".", "p", "d", "f">>}

\* The tables in the order every strategy consults them.
ExtTables == <<
    [exts |-> IMAGE_EXTS_FULL, canon |-> "image"],
    [exts |-> VIDEO_EXTS, canon |-> "video"],
    [exts |-> AUDIO_EXTS, canon |-> "audio"],
    [exts |-> MODEL_EXTS, canon |-> "3d-model"],
    [exts |-> GAME_EXTS, canon |-> "game"],
    [exts |-> TEXT_EXTS, canon |-> "text"] >>

\* str.lstrip('.')
LStripDots(s) ==
    LET keep == {i \in DOMAIN s : s[i] # "."} IN
    IF keep = {} THEN <<>>
    ELSE SubSeq(s, CHOOSE i \in keep : \A j \in keep : i <= j, Len(s))

\* The tables that satisfy test, first first.
FirstTable(test(_)) ==
    LET hits == {k \in DOMAIN ExtTables : test(ExtTables[k].exts)} IN
    IF hits = {} THEN "no match"
    ELSE ExtTables[CHOOSE k \in hits : \A j \in hits : k <= j].canon

\* `t in {ext.lstrip('.') for ext in ...}`, table after table.
TokenKind(t) == FirstTable(LAMBDA exts : \E e \in exts : LStripDots(e) = t)

\* `ext in ...`, table after table.
SuffixKind(ext) == FirstTable(LAMBDA exts : ext \in exts)

\* `ext.lstrip('.') in lower or ext in lower` for some ext of the table.
ScanKind(lower) ==
    FirstTable(LAMBDA exts : \E e \in exts :
                    Contains(lower, LStripDots(e)) \/ Contains(lower, e))

\* Path(p).suffix: the last component from its last dot on, when that dot
\* is neither its first nor its last character.
Suffix(p) ==
    LET trimmed == RStripSet(p, {"/"})
        slashes == {i \in DOMAIN trimmed : trimmed[i] = "/"}
        start == IF slashes = {} THEN 1
                 ELSE (CHOOSE i \in slashes : \A j \in slashes : i >= j) + 1
        name == SubSeq(trimmed, start, Len(trimmed))
        dots == {i \in DOMAIN name : name[i] = "."}
        i0 == IF dots = {} THEN 0 ELSE CHOOSE i \in dots : \A j \in dots : i >= j
    IN  IF 1 < i0 /\ i0 < Len(name) THEN SubSeq(name, i0, Len(name)) ELSE <<>>

IsUrl(s) ==
    \/ StartsWith(s, <<"h", "t", "t", "p", ":", "/", "/">>)
    \/ StartsWith(s, <<"h", "t", "t", "p", "s", ":", "/", "/">>)
    \/ StartsWith(s, <<"f", "t", "p", ":", "/", "/">>)

\* The names the type may already be.
CanonicalNames == {<<"i", "m", "a", "g", "e">>, <<"v", "i", "d", "e", "o">>, <<"3", "d", "-", "m", "o", "d", "e", "l">>, <<"3", "d">>, <<"g", "a", "m", "e">>,
                   <<"t", "e", "x", "t">>, <<"a", "u", "d", "i", "o">>, <<"u", "r", "l", "-", "l", "i", "n", "k">>}

\* `if t == "3d": return "3d-model"` left out: the name is returned as is.
KindOfNameAsIs(t) ==
    CASE t = <<"i", "m", "a", "g", "e">> -> "image"
      [] t = <<"v", "i", "d", "e", "o">> -> "video"
      [] t = <<"3", "d", "-", "m", "o", "d", "e", "l">> -> "3d-model"
      [] t = <<"3", "d">> -> "3d"
      [] t = <<"g", "a", "m", "e">> -> "game"
      [] t = <<"t", "e", "x", "t">> -> "text"
      [] t = <<"a", "u", "d", "i", "o">> -> "audio"
      [] t = <<"u", "r", "l", "-", "l", "i", "n", "k">> -> "url-link"

\* What is returned for a canonical name: the name, "3d-model" for "3d".
KindOfName(t) ==
    CASE t = <<"i", "m", "a", "g", "e">> -> "image"
      [] t = <<"v", "i", "d", "e", "o">> -> "video"
      [] t = <<"3", "d", "-", "m", "o", "d", "e", "l">> -> "3d-model"
      [] t = <<"3", "d">> -> "3d-model"
      [] t = <<"g", "a", "m", "e">> -> "game"
      [] t = <<"t", "e", "x", "t">> -> "text"
      [] t = <<"a", "u", "d", "i", "o">> -> "audio"
      [] t = <<"u", "r", "l", "-", "l", "i", "n", "k">> -> "url-link"

\* The part of the function that looks at path_val: an http, https or ftp
\* URL; the suffix of the unquoted path; a scan of the lowered string for
\* any extension token; "image".
PathKind(pv) ==
    IF ~(Truthy(pv) /\ pv.t = "str") THEN "image"
    ELSE IF IsUrl(Strip(pv.v)) THEN "url-link"
    ELSE IF SuffixKind(Lower(Suffix(unquote(pv.v)))) # "no match"
         THEN SuffixKind(Lower(Suffix(unquote(pv.v))))
    ELSE IF ScanKind(Lower(pv.v)) # "no match"
         THEN ScanKind(Lower(pv.v))
    ELSE "image"

\* raw_type.strip().lower()
TypeText(rt) == Lower(Strip(rt.v))

\* A type that is already a name: folio-prebuild.py knows "url", "folio"
\* and the canonical names; pre-build.py "url" and the canonical names.
NameKind(sc, t) ==
    IF t = <<"u", "r", "l">> THEN "url-link"
    ELSE IF sc = "folio-prebuild" /\ t = Folio THEN "folio"
    ELSE IF t \in CanonicalNames THEN KindOfName(t)
    ELSE "no match"

\* A type that is an extension or a short form like "mov", ".glb"; in
\* folio-prebuild.py "file" falls through to the path.
ExtTokenKind(sc, t) ==
    IF sc = "folio-prebuild" /\ t = <<"f", "i", "l", "e">> THEN "no match"
    ELSE IF StartsWith(t, <<".">>) THEN TokenKind(Tail(t))
    ELSE TokenKind(t)

\* The extension token in raw_type is not consulted.
skip_extension_token(sc, rt, pv) ==
    IF Truthy(rt) /\ rt.t = "str"
        /\ NameKind(sc, TypeText(rt)) # "no match"
    THEN NameKind(sc, TypeText(rt))
    ELSE PathKind(pv)

\* determine_collection_item_type(raw_type, path_val) of script sc.
determine_collection_item_type(sc, rt, pv) ==
    IF Truthy(rt) /\ rt.t = "str"
        /\ NameKind(sc, TypeText(rt)) # "no match"
    THEN NameKind(sc, TypeText(rt))
    ELSE IF Truthy(rt) /\ rt.t = "str"
        /\ ExtTokenKind(sc, TypeText(rt)) # "no match"
    THEN ExtTokenKind(sc, TypeText(rt))
    ELSE PathKind(pv)

\* Declared types and path hints of collection items.
RawTypes == {
    Missing, JNull, JInt(<<"5">>), JStr(<<>>), JStr(<<" ", " ">>),
    JStr(<<"V", "i", "d", "e", "o">>), JStr(<<"3", "D">>), JStr(<<" ", "U", "R", "L", " ">>), JStr(<<"F", "o", "l", "i", "o">>),
    JStr(<<"F", "i", "l", "e">>), JStr(<<"m", "o", "v">>), JStr(<<".", "G", "L", "B">>), JStr(<<".", ".", "p", "n", "g">>),
    JStr(<<"b", "a", "n", "a", "n", "a">>), JStr(<<"h", "t", "m", "l">>) }

PathHints == {
    Missing, JInt(<<"3">>), JStr(<<>>), JStr(<<"c", "l", "i", "p", "s", "/", "I", "n", "t", "r", "o", ".", "M", "O", "V">>),
    JStr(<<"h", "t", "t", "p", "s", ":", "/", "/", "x", ".", "i", "o", "/", "a", ".", "p", "n", "g">>), JStr(<<" ", "f", "t", "p", ":", "/", "/", "h", "/", "a">>),
    JStr(<<"a", ".", "b", "/", "m", "o", "d", "e", "l", ".", "t", "a", "r", ".", "g", "l", "b">>), JStr(<<"n", "o", "t", "e", "s">>), JStr(<<"m", "y", " ", "m", "p", "4", " ", "f", "i", "l", "e">>),
    JStr(<<".", "p", "n", "g">>), JStr(<<"s", "o", "n", "g", "%", "2", "E", "m", "p", "3">>), JStr(<<"s", "i", "t", "e", "/", "i", "n", "d", "e", "x", ".", "h", "t", "m", "l", "/">>),
    JStr(<<"r", "e", "a", "d", "m", "e", ".">>) }

ClassifyInit ==
    /\ PublishIdle /\ LoadIdle /\ ResolveIdle /\ AssetIdle /\ SanitizeIdle /\ HostIdle /\ BaseIdle /\ CollectionIdle
    /\ raw_type \in RawTypes
    /\ path_val \in PathHints
    /\ classifier = "none"
    /\ normalized_type = "none"

\* `normalized_type = determine_collection_item_type(raw_type, path_for_type)`
\* in copy_collection_for_project of script sc.
DetermineType(sc) ==
    /\ classifier = "none"
    /\ classifier' = sc
    /\ normalized_type' = determine_collection_item_type(sc, raw_type, path_val)
    /\ UNCHANGED <<exceptClassify, raw_type, path_val>>

ClassifyNext == \E sc \in Scripts : DetermineType(sc)

ClassifySpec == ClassifyInit /\ [][ClassifyNext]_vars

(* ============================ asset lookup ============================= *)
\* Paths are relative to the package directory (proj_dir, which is also the
\* base directory of the document's references).
\* Path(p).name
BaseName(p) ==
    LET slashes == {i \in DOMAIN p : p[i] = "/"} IN
    IF slashes = {} THEN p
    ELSE SubSeq(p, (CHOOSE i \in slashes : \A j \in slashes : i >= j) + 1, Len(p))

\* Path(p).stem
Stem(p) == SubSeq(BaseName(p), 1, Len(BaseName(p)) - Len(Suffix(p)))

\* p is a direct child of the package directory.
InRoot(p) == "/" \notin Range(p)

ContentJson == <<"c", "o", "n", "t", "e", "n", "t", ".", "j", "s", "o", "n">>
ContentsJson == <<"c", "o", "n", "t", "e", "n", "t", "s", ".", "j", "s", "o", "n">>
CONTENT_NAMES == {ContentJson, ContentsJson}

\* The asset files a package directory may hold.
FilePool == {<<"t", "h", "u", "m", "b", "n", "a", "i", "l", ".", "p", "n", "g">>, <<"t", "h", "u", "m", "b", "n", "a", "i", "l", ".", "j", "p", "g">>, <<"t", "h", "u", "m", "b", ".", "p", "n", "g">>,
             <<"i", "m", "g", "/", "t", "h", "u", "m", "b", ".", "p", "n", "g">>, <<"p", "i", "c", ".", "p", "n", "g">>, <<"p", "i", "c", ".", "j", "p", "g">>,
             <<"i", "m", "g", "/", "p", "i", "c", ".", "p", "n", "g">>}

MaxFiles == 2   \* asset files in the package directory

\* p.name.lower(), p.stem.lower() and p.suffix.lower() of the files a
\* directory may hold.
NameLower == [p \in FilePool \cup CONTENT_NAMES |-> Lower(BaseName(p))]
StemLower == [p \in FilePool \cup CONTENT_NAMES |-> Lower(Stem(p))]
SuffixLower == [p \in FilePool \cup CONTENT_NAMES |-> Lower(Suffix(p))]

\* A package directory: one or both content files, and some assets.
Trees ==
    {c \cup a : c \in (SUBSET CONTENT_NAMES) \ {{}},
                a \in {s \in SUBSET FilePool : Cardinality(s) <= MaxFiles}}

Perms(S) == {s \in [1..Cardinality(S) -> S] : Range(s) = S}

\* The orders in which rglob("*") and os.walk can yield the files of the
\* package directory: the entries of a directory come in the order the
\* filesystem gives them, and before those of its subdirectory.
Enumerations(t) ==
    {a \o b : a \in Perms({p \in t : InRoot(p)}),
              b \in Perms({p \in t : ~InRoot(p)})}

\* proj_dir.iterdir(): the direct children only.
iterdir(order) == SelectSeq(order, InRoot)

NoFile == <<>>

\* `for p in ...: if test(p): found = p; break`
First(seq, test(_)) ==
    LET hits == {i \in DOMAIN seq : test(seq[i])} IN
    IF hits = {} THEN NoFile
    ELSE seq[CHOOSE i \in hits : \A j \in hits : i <= j]

\* p.stem.lower() == "thumbnail" and p.suffix.lower() in IMAGE_EXTS
IsThumbnailFile(p) ==
    StemLower[p] = <<"t", "h", "u", "m", "b", "n", "a", "i", "l">> /\ SuffixLower[p] \in IMAGE_EXTS

\* The stem fallbacks: which one, the suffixes it accepts ("any": all).
Fallbacks == {"image", "item_file", "item_thumbnail"}

Accepts(fb, p) ==
    CASE fb = "image" -> SuffixLower[p] \in IMAGE_EXTS
      [] fb = "item_thumbnail" ->
            SuffixLower[p] \in IMAGE_EXTS \cup VIDEO_EXTS
      [] OTHER -> TRUE

\* The stem the fallback looks for: path_obj.stem.lower() for an image,
\* Path(unquote(str(path))).stem.lower() for a collection item.
WantedStem(fb, ref) ==
    Lower(Stem(IF fb = "image" THEN ref ELSE unquote(ref)))

\* The files the fallback accepts for ref.
Matches(fb, t, ref) ==
    LET stem == WantedStem(fb, ref) IN
    {p \in t : StemLower[p] = stem /\ Accepts(fb, p)}

\* The first file in enumeration order the fallback accepts.
stem_fallback(fb, order, ref) ==
    LET accepted == Matches(fb, Range(order), ref) IN
    First(order, LAMBDA p : p \in accepted)

\* The source file for a reference: the referenced file when it exists,
\* else what the stem fallback finds.
locate(fb, order, ref) ==
    IF ref \in Range(order) THEN ref ELSE stem_fallback(fb, order, ref)

(* ------------------------- images of a document ------------------------ *)
\* A value of the `images` dict: {"path": ...} or a plain string.
NoRef == [form |-> "none", path |-> <<>>]
PathObj(p) == [form |-> "dict", path |-> p]
PathStr(p) == [form |-> "str", path |-> p]

\* images.get(key)
Get(d, key) ==
    IF \E k \in DOMAIN d : d[k][1] = key
    THEN d[CHOOSE k \in DOMAIN d : d[k][1] = key][2]
    ELSE NoRef

ThumbnailRefs == {NoRef, PathObj(<<"t", "h", "u", "m", "b", ".", "p", "n", "g">>), PathObj(<<"i", "m", "g", "/", "t", "h", "u", "m", "b", ".", "p", "n", "g">>),
                  PathStr(<<"t", "h", "u", "m", "b", "n", "a", "i", "l", ".", "p", "n", "g">>)}
BannerRefs == {NoRef, PathObj(<<"i", "m", "g", "/", "p", "i", "c", ".", "p", "n", "g">>), PathObj(<<"p", "i", "c", ".", "w", "e", "b", "p">>),
               PathStr(<<"p", "i", "c", ".", "p", "n", "g">>)}

\* The `images` dicts of the document, keys in the order of the JSON text.
ImageDicts ==
    {SelectSeq(<<<<"thumbnail", t>>, <<"banner", b>>>>, LAMBDA e : e[2] # NoRef) :
        t \in ThumbnailRefs, b \in BannerRefs}

\* dest_dir / src.name: every asset goes directly into the project folder.
DestMirrored(src) == src
DestOf(src) == BaseName(src)

NoCopy == <<>>

\* copy_thumbnail_for_project with thumbnail = thumb_name: the file of that
\* name in the base directory, else the first thumbnail.* of iterdir().
copy_thumbnail_for_project(order, thumb_name) ==
    LET Copy(src) == IF src = NoFile THEN NoCopy ELSE <<<<src, DestOf(src)>>>>
    IN  Copy(IF thumb_name \in Range(order) THEN thumb_name
             ELSE First(iterdir(order), IsThumbnailFile))

\* The thumbnail handling of main(): images and copies after it.
HandleThumbnail(order, imgs) ==
    LET Named(thumb) ==
            IF thumb.path # <<>> /\ thumb.path \in Range(order)
            THEN copy_thumbnail_for_project(order, BaseName(thumb.path))
            ELSE NoCopy
        Found(found) ==
            IF found # NoFile
            THEN [images |-> Put(imgs, {<<"thumbnail", PathStr(BaseName(found))>>}),
                  copies |-> copy_thumbnail_for_project(order, BaseName(found))]
            ELSE [images |-> imgs, copies |-> NoCopy]
        With(thumb, first) ==
            IF first # NoCopy
            THEN [images |-> Put(imgs, {<<"thumbnail", PathStr(BaseName(thumb.path))>>}),
                  copies |-> first]
            ELSE Found(First(iterdir(order), IsThumbnailFile))
        WithThumb(thumb) == With(thumb, Named(thumb))
    IN  WithThumb(Get(imgs, "thumbnail"))

\* copy_images_for_project: `for key, val in list(images.items())`.
RECURSIVE copy_images_for_project(_, _, _, _)
copy_images_for_project(order, items, i, acc) ==
    IF i > Len(items) THEN acc
    ELSE LET Copy(key, path_to_copy, src) ==
                IF path_to_copy = <<>> \/ src = NoFile
                THEN copy_images_for_project(order, items, i + 1, acc)
                ELSE copy_images_for_project(order, items, i + 1,
                        [images |-> Put(acc.images, {<<key, PathStr(BaseName(src))>>}),
                         copies |-> Append(acc.copies, <<src, DestOf(src)>>)])
         IN  Copy(items[i][1], items[i][2].path,
                  locate("image", order, items[i][2].path))

\* The project folder after the copies: shutil.copy2 overwrites.
FolderOf(copies) ==
    {<<copies[k][2], copies[k][1]>> : k \in
        {i \in DOMAIN copies : \A j \in DOMAIN copies :
            copies[j][2] = copies[i][2] => j <= i}}

\* One build over the package directory: the content file that
\* collect_folio_files keeps, the images of the record, the copies made.
BuildOf(order) ==
    LET Result(done) ==
            [candidate |-> First(iterdir(order),
                                 LAMBDA p : NameLower[p] \in CONTENT_NAMES),
             images |-> done.images,
             copies |-> done.copies, folder |-> FolderOf(done.copies)]
        Images(thumbs) ==
            Result(copy_images_for_project(order, thumbs.images, 1, thumbs))
    IN  Images(HandleThumbnail(order, images))

MaxBuilds == 2  \* consecutive builds over the package directory
MaxCalls == 2   \* consecutive calls of a stem fallback

RunBuild ==
    /\ Len(builds) < MaxBuilds
    /\ \E order \in Enumerations(tree) : builds' = Append(builds, BuildOf(order))
    /\ UNCHANGED <<tree, images, fallback, ref_path, located>>
    /\ UNCHANGED exceptAssets

AssetInit ==
    /\ PublishIdle /\ LoadIdle /\ ResolveIdle /\ ClassifyIdle /\ SanitizeIdle /\ HostIdle /\ BaseIdle /\ CollectionIdle
    /\ tree \in Trees
    /\ images \in ImageDicts
    /\ builds = <<>>
    /\ fallback = "none"
    /\ ref_path = <<>>
    /\ located = <<>>

AssetNext == RunBuild

\* Builds over one unchanged package directory.
AssetSpec == AssetInit /\ [][AssetNext]_vars

\* The references the fallbacks are asked for.
RefPaths == {<<"p", "i", "c", ".", "w", "e", "b", "p">>, <<"P", "i", "c", ".", "P", "N", "G">>, <<"i", "m", "g", "/", "t", "h", "u", "m", "b", ".", "g", "i", "f">>, <<"p", "i", "c", ".", "p", "n", "g">>}

Locate ==
    /\ Len(located) < MaxCalls
    /\ \E order \in Enumerations(tree) :
            located' = Append(located, locate(fallback, order, ref_path))
    /\ UNCHANGED <<tree, images, builds, fallback, ref_path>>
    /\ UNCHANGED exceptAssets

LocateInit ==
    /\ PublishIdle /\ LoadIdle /\ ResolveIdle /\ ClassifyIdle /\ SanitizeIdle /\ HostIdle /\ BaseIdle /\ CollectionIdle
    /\ tree \in Trees
    /\ images = <<>>
    /\ builds = <<>>
    /\ fallback \in Fallbacks
    /\ ref_path \in RefPaths
    /\ located = <<>>

LocateNext == Locate

\* Calls of one stem fallback on one unchanged package directory.
LocateSpec == LocateInit /\ [][LocateNext]_vars

(* ========================== _sanitize_for_json ========================= *)
\* Values of a project record: a dict is its <<key, value>> pairs in
\* order, a list its elements (under the empty key), a str its text, and a
\* pathlib.Path (the value main() stores under _base_dir) its text.
Leaf(t, v) == [t |-> t, v |-> v, items |-> <<>>]
Dict(items) == [t |-> "dict", v |-> <<>>, items |-> items]
List(values) ==
    [t |-> "list", v |-> <<>>, items |-> [i \in DOMAIN values |-> <<<<>>, values[i]>>]]

BaseDirKey == <<"_", "b", "a", "s", "e", "_", "d", "i", "r">>
AssetsFolderKey == <<"a", "s", "s", "e", "t", "s", "F", "o", "l", "d", "e", "r">>
RequiresFollowUpKey == <<"r", "e", "q", "u", "i", "r", "e", "s", "F", "o", "l", "l", "o", "w", "U", "p">>
FilePathKey == <<"f", "i", "l", "e", "P", "a", "t", "h">>
ItemsKey == <<"i", "t", "e", "m", "s">>

REMOVE_KEYS == {AssetsFolderKey, RequiresFollowUpKey}

\* The keys the records use.
Keys == {BaseDirKey, AssetsFolderKey, RequiresFollowUpKey, FilePathKey, ItemsKey}

Leaves == {Leaf("str", <<"x">>), Leaf("path", <<"/", "s", "r", "c", "/", "A", ".", "f", "o", "l", "i", "o">>)}

MaxDepth == 3   \* nesting depth of the values of a record

\* The values of nesting depth at most d: leaves, dicts of one entry or of
\* one entry followed by a filePath, lists of one or two elements.
RECURSIVE Values(_)
Values(d) ==
    IF d = 0 THEN Leaves
    ELSE LET inner == Values(d - 1) IN
         Leaves
         \cup {Dict(<<<<k, v>>>>) : k \in Keys, v \in inner}
         \cup {Dict(<<<<k, v>>, <<FilePathKey, Leaf("str", <<"/", "s", "r", "c", "/", "A", ".", "f", "o", "l", "i", "o">>)>>>>) :
                    k \in Keys \ {FilePathKey}, v \in inner}
         \cup {List(<<v>>) : v \in inner}
         \cup {List(<<Leaf("str", <<"x">>), v>>) : v \in inner}

\* The project records of all_projects: dicts of depth at most d.
Records(d) == {r \in Values(d) : r.t = "dict"}

\* The three `continue` tests of the loop over value.items().
KeepsPrivateKeys(k, is_project_root) ==
    \/ k \in REMOVE_KEYS
    \/ (k = FilePathKey /\ is_project_root)
DropsKey(k, is_project_root) ==
    \/ StartsWith(k, <<"_">>)
    \/ k \in REMOVE_KEYS
    \/ (k = FilePathKey /\ is_project_root)

RECURSIVE sanitize_for_json(_, _)
sanitize_for_json(value, is_project_root) ==
    CASE value.t = "path" -> Leaf("str", value.v)
      [] value.t = "dict" ->
            LET kept == SelectSeq(value.items,
                                  LAMBDA e : ~DropsKey(e[1], is_project_root))
            IN  Dict([i \in DOMAIN kept |->
                        <<kept[i][1], sanitize_for_json(kept[i][2], FALSE)>>])
      [] value.t = "list" ->
            [value EXCEPT !.items =
                [i \in DOMAIN value.items |->
                    <<<<>>, sanitize_for_json(value.items[i][2], FALSE)>>]]
      [] OTHER -> value

\* `serializable_projects = [_sanitize_for_json(p, is_project_root=True)
\* for p in all_projects]`, then written as projects.json.
SanitizeAndWrite ==
    /\ ~written
    /\ serializable_projects' =
            [i \in DOMAIN all_projects |-> sanitize_for_json(all_projects[i], TRUE)]
    /\ written' = TRUE
    /\ UNCHANGED exceptSanitize

SanitizeInit ==
    /\ PublishIdle /\ ClassifyIdle /\ AssetIdle /\ HostIdle /\ BaseIdle /\ CollectionIdle
    /\ warnings = <<>>
    /\ resolve_state = "returned"
    /\ idx = Len(Candidates)
    /\ objs = <<>>
    /\ skipped = <<>>
    /\ folio_url_to_id = <<>>
    /\ discovered = <<>>
    /\ \E r \in Records(MaxDepth) : all_projects = <<r>>
    /\ serializable_projects = <<>>
    /\ written = FALSE

SanitizeNext == SanitizeAndWrite

\* The aggregated records are sanitized and written.
SanitizeSpec == SanitizeInit /\ [][SanitizeNext]_vars

(* ======================= image-hostnames.json ========================== *)
\* Index of the first character of s that is in cs; 0 when there is none.
FirstIndex(s, cs) ==
    IF \E i \in DOMAIN s : s[i] \in cs
    THEN CHOOSE i \in DOMAIN s : s[i] \in cs /\ \A j \in 1..(i - 1) : s[j] \notin cs
    ELSE 0

\* Index of the last character of s that is in cs; 0 when there is none.
LastIndex(s, cs) ==
    IF \E i \in DOMAIN s : s[i] \in cs
    THEN CHOOSE i \in DOMAIN s : s[i] \in cs /\ \A j \in (i + 1)..Len(s) : s[j] \notin cs
    ELSE 0

Letters == Range(Small) \cup Range(Capital)
SchemeChars == Letters \cup Digit \cup {"+", "-", "."}

\* urlsplit: the scheme is split off when the text before the first ':'
\* is a letter followed by scheme characters.
AfterScheme(u) ==
    LET With(colon) ==
            IF /\ colon > 1
               /\ u[1] \in Letters
               /\ \A j \in 1..(colon - 1) : u[j] \in SchemeChars
            THEN SubSeq(u, colon + 1, Len(u))
            ELSE u
    IN  With(FirstIndex(u, {":"}))

\* urlsplit: the netloc is what follows '//' up to the first '/', '?' or '#'.
Netloc(rest) ==
    IF ~StartsWith(rest, <<"/", "/">>) THEN <<>>
    ELSE LET Cut(after, end) ==
                IF end = 0 THEN after ELSE SubSeq(after, 1, end - 1)
             With(after) == Cut(after, FirstIndex(after, {"/", "?", "#"}))
         IN  With(SubSeq(rest, 3, Len(rest)))

\* SplitResult.hostname: drop the userinfo and the port, lower-case.
HostOfNetloc(netloc) ==
    LET NoPort(hostinfo, colon) ==
            IF colon = 0 THEN hostinfo ELSE SubSeq(hostinfo, 1, colon - 1)
        With(hostinfo) == Lower(NoPort(hostinfo, FirstIndex(hostinfo, {":"})))
    IN  With(SubSeq(netloc, LastIndex(netloc, {"@"}) + 1, Len(netloc)))

\* extract_hostname: the hostnames (none or one) of a string value.
extract_hostname(url_str) ==
    LET Parsed(host) == IF host = <<>> THEN {} ELSE {host}
        With(u) ==
            IF u = <<>> \/ StartsWith(u, <<"/">>) \/ ~Contains(u, <<":", "/", "/">>)
            THEN {}
            ELSE Parsed(HostOfNetloc(Netloc(AfterScheme(u))))
    IN  With(Strip(url_str))

\* scan_dict: strings, nested dicts, and the dicts and strings of lists.
RECURSIVE scan_dict(_)
ScanItem(item) ==
    CASE item.t = "dict" -> scan_dict(item)
      [] item.t = "str" -> extract_hostname(item.v)
      [] OTHER -> {}

ScanValue(value) ==
    CASE value.t = "str" -> extract_hostname(value.v)
      [] value.t = "dict" -> scan_dict(value)
      [] value.t = "list" ->
            UNION {ScanItem(value.items[j][2]) : j \in DOMAIN value.items}
      [] OTHER -> {}

scan_dict(obj) ==
    IF obj.t # "dict" THEN {}
    ELSE UNION {ScanValue(obj.items[i][2]) : i \in DOMAIN obj.items}

extract_external_image_hostnames(projects) ==
    UNION {scan_dict(projects[i]) : i \in DOMAIN projects}

ThumbnailKey == <<"t", "h", "u", "m", "b", "n", "a", "i", "l">>
UrlKey == <<"u", "r", "l">>

\* String values of a record: two hosted images, a published file, a file.
UrlPool == {<<"h", "t", "t", "p", "s", ":", "/", "/", "C", "D", "N", ".", "a", ".", "i", "o", "/", "i", ".", "p", "n", "g">>, <<"h", "t", "t", "p", ":", "/", "/", "u", "@", "b", ".", "i", "o", ":", "8", "0">>,
            <<"/", "p", "r", "o", "j", "e", "c", "t", "s", "/", "p", "/", "i", ".", "p", "n", "g">>, <<"i", ".", "p", "n", "g">>}

\* A project with a thumbnail and a list holding an item dict and a string.
ProjectOf(u, v, w) ==
    Dict(<<<<ThumbnailKey, Leaf("str", u)>>,
           <<BaseDirKey, Leaf("path", <<"/", "s", "r", "c">>)>>,
           <<ItemsKey, List(<<Dict(<<<<UrlKey, Leaf("str", v)>>>>),
                              Leaf("str", w)>>)>>>>)

MaxUrls == 2   \* distinct string values used by one project

HostProjects ==
    {ProjectOf(u, v, w) : u \in UrlPool, v \in UrlPool, w \in UrlPool}

ProjectPool ==
    {r \in HostProjects :
        Cardinality({r.items[1][2].v, r.items[3][2].items[1][2].items[1][2].v,
                     r.items[3][2].items[2][2].v}) <= MaxUrls}

Sanitized(projects) ==
    [i \in DOMAIN projects |-> sanitize_for_json(projects[i], TRUE)]

\* main(): extract the hostnames of all_projects and write them to
\* public/image-hostnames.json; a failed write is logged as a warning.
WriteHostnamesConfig ==
    /\ publish_step = "resolved"
    /\ \/ hostnames_config' = extract_external_image_hostnames(all_projects)
       \/ UNCHANGED hostnames_config
    /\ publish_step' = "manifest"
    /\ UNCHANGED <<live_projects, exceptHost>>

\* main(): projects.json is written into the temp dir; when that fails the
\* temp dir is removed and the run ends.
WriteProjectsJson ==
    /\ publish_step = "manifest"
    /\ publish_step' \in {"swap", "manifest_failed"}
    /\ UNCHANGED <<hostnames_config, live_projects, exceptHost>>

\* main(): the temp dir is renamed to public/projects; when that fails the
\* live directory is what the rollback restored, or absent.
SwapManifest ==
    /\ publish_step = "swap"
    /\ \/ /\ live_projects' = Sanitized(all_projects)
          /\ publish_step' = "committed"
       \/ /\ live_projects' \in {live_projects, <<>>}
          /\ publish_step' = "rolled_back"
    /\ UNCHANGED <<hostnames_config, exceptHost>>

\* A run that has resolved its records, over a public directory whose side
\* file was written by the run that published the live manifest (or whose
\* live directory has been removed by the preparation of this run).
HostInit ==
    /\ PublishIdle /\ ResolveIdle /\ ClassifyIdle /\ AssetIdle /\ SanitizeIdle
    /\ BaseIdle
    /\ CollectionIdle
    /\ idx = 0
    /\ objs = <<>>
    /\ skipped = <<>>
    /\ folio_url_to_id = <<>>
    /\ discovered = <<>>
    /\ \E r \in ProjectPool : all_projects = <<r>>
    /\ \E old \in ProjectPool :
        /\ hostnames_config = extract_external_image_hostnames(<<old>>)
        /\ live_projects \in {Sanitized(<<old>>), <<>>}
    /\ publish_step = "resolved"

HostNext ==
    \/ WriteHostnamesConfig
    \/ WriteProjectsJson
    \/ SwapManifest

HostSpec == HostInit /\ [][HostNext]_vars
(* ============================ base directory =========================== *)
\* The segments of a path text; pathlib drops empty and "." segments.
RECURSIVE Segments(_)
Segments(s) ==
    IF s = <<>> THEN <<>>
    ELSE LET With(seg) ==
                (IF seg \in {<<>>, <<".">>} THEN <<>> ELSE <<seg>>)
                \o Segments(SubSeq(s, Len(seg) + 2, Len(s)))
         IN  With(Before(s, {"/"}))

\* pathlib.Path(text)
Path(s) == [anchor |-> StartsWith(s, <<"/">>), parts |-> Segments(s)]

\* a / b: an absolute b replaces a.
Joined(a, b) == IF b.anchor THEN b ELSE [a EXCEPT !.parts = a.parts \o b.parts]

\* The working directory of the run.
Cwd == Path(<<"/", "w">>)

Absolute(p) == IF p.anchor THEN p ELSE Joined(Cwd, p)

\* p.exists() and p.is_dir(), with the directories ds on disk.
IsDir(p, ds) == Absolute(p) \in ds

FileScheme == <<"f", "i", "l", "e", ":", "/", "/">>

\* {"path": value}, the dict form of assetsFolder.
AssetsDict(value) == [t |-> "dict", v |-> <<>>, path |-> value]

\* `assets_val` of main(): the path of a dict, the text of a str, else None.
AssetsVal(obj) ==
    IF obj.assetsFolder.t = "dict" THEN
        (IF obj.assetsFolder.path.t = "missing" THEN JNull ELSE obj.assetsFolder.path)
    ELSE IF obj.assetsFolder.t = "str" THEN obj.assetsFolder
    ELSE JNull

\* Path(unquote(urlparse(text).path)) of a file:// URL, Path(text) otherwise.
AssetsPath(text) ==
    IF StartsWith(text, FileScheme) THEN Path(unquote(UrlPath(text))) ELSE Path(text)

\* main(): base_dir after the assetsFolder branch.
BaseFromAssets(obj, pd, ds) ==
    LET Pick(assets_path, maybe) ==
            IF IsDir(assets_path, ds) THEN assets_path
            ELSE IF IsDir(maybe, ds) THEN maybe
            ELSE pd
        With(assets_path) == Pick(assets_path, Joined(pd, assets_path))
        From(assets_val) ==
            IF assets_val.t = "str" /\ assets_val.v # <<>>
            THEN With(AssetsPath(assets_val.v))
            ELSE pd
    IN  From(AssetsVal(obj))

\* main(): the filePath fallback, taken when base_dir == proj_dir.
BaseFromFilePath(obj, pd, ds, base) ==
    IF base # pd THEN base
    ELSE IF obj.filePath.t = "str" /\ StartsWith(obj.filePath.v, FileScheme)
    THEN LET With(fp_path) == IF IsDir(fp_path, ds) THEN fp_path ELSE base
         IN  With(Path(unquote(UrlPath(obj.filePath.v))))
    ELSE base

\* main(): the base directory stored under _base_dir.
ResolveBaseDir(obj, pd, ds) ==
    BaseFromFilePath(obj, pd, ds, BaseFromAssets(obj, pd, ds))

\* The run is started with a relative or with an absolute root.
ProjDirs == {Path(<<"P", "r", "o", "j", "e", "c", "t", "s", "/", "A", ".", "f", "o", "l", "i", "o">>), Path(<<"/", "w", "/", "P", "r", "o", "j", "e", "c", "t", "s", "/", "A", ".", "f", "o", "l", "i", "o">>)}

AssetsTexts == {<<>>, <<"a", "s", "s", "e", "t", "s">>, <<"f", "i", "l", "e", ":", "/", "/", "/", "w", "/", "M", "y", "%", "2", "0", "A", "s", "s", "e", "t", "s">>,
                <<"/", "w", "/", "P", "r", "o", "j", "e", "c", "t", "s", "/", "A", ".", "f", "o", "l", "i", "o">>, <<"P", "r", "o", "j", "e", "c", "t", "s", "/", "A", ".", "f", "o", "l", "i", "o", "/">>,
                <<"f", "i", "l", "e", ":", "/", "/", "/", "w", "/", "g", "o", "n", "e">>}

AssetsFolders ==
    {Missing, AssetsDict(Missing)}
    \cup {JStr(a) : a \in AssetsTexts}
    \cup {AssetsDict(JStr(a)) : a \in AssetsTexts}

FilePaths == {Missing, JInt(<<"7">>), JStr(<<"f", "i", "l", "e", ":", "/", "/", "/", "w", "/", "P", "r", "o", "j", "e", "c", "t", "s", "/", "A", ".", "f", "o", "l", "i", "o">>),
              JStr(<<"f", "i", "l", "e", ":", "/", "/", "/", "w", "/", "O", "l", "d", "/", "A", ".", "f", "o", "l", "i", "o">>), JStr(<<"/", "w", "/", "O", "l", "d", "/", "A", ".", "f", "o", "l", "i", "o">>)}

\* The working directory and the package directory exist; others may.
FixedDirs == {Cwd, Path(<<"/", "w", "/", "P", "r", "o", "j", "e", "c", "t", "s", "/", "A", ".", "f", "o", "l", "i", "o">>)}
OtherDirs == {Path(<<"/", "w", "/", "P", "r", "o", "j", "e", "c", "t", "s", "/", "A", ".", "f", "o", "l", "i", "o", "/", "a", "s", "s", "e", "t", "s">>), Path(<<"/", "w", "/", "a", "s", "s", "e", "t", "s">>),
              Path(<<"/", "w", "/", "M", "y", " ", "A", "s", "s", "e", "t", "s">>), Path(<<"/", "w", "/", "O", "l", "d", "/", "A", ".", "f", "o", "l", "i", "o">>)}

MaxDirs == 2   \* directories on disk besides the two fixed ones

\* main(): `obj["_base_dir"] = base_dir`.
DetermineBaseDir ==
    /\ base_dir = NoPath
    /\ base_dir' = ResolveBaseDir(objs[1], proj_dir, dirs)
    /\ UNCHANGED <<proj_dir, dirs, exceptBase>>

BaseInit ==
    /\ PublishIdle /\ ResolveIdle /\ ClassifyIdle /\ AssetIdle /\ SanitizeIdle
    /\ HostIdle
    /\ CollectionIdle
    /\ idx = 0
    /\ all_projects = <<>>
    /\ skipped = <<>>
    /\ folio_url_to_id = <<>>
    /\ discovered = <<>>
    /\ \E a \in AssetsFolders : \E f \in FilePaths :
        objs = <<[assetsFolder |-> a, filePath |-> f]>>
    /\ proj_dir \in ProjDirs
    /\ \E others \in SUBSET OtherDirs :
        /\ Cardinality(others) <= MaxDirs
        /\ dirs = FixedDirs \cup others
    /\ base_dir = NoPath

BaseNext == DetermineBaseDir

\* One document is given its base directory.
BaseSpec == BaseInit /\ [][BaseNext]_vars
(* ==================== document loop, then resolver ===================== *)
\* One document per candidate file, with the resources and the collection
\* items the resolver looks at.
Linked(id, isPublic, visibility, filePath, thumb, resources, items) ==
    [dict |-> TRUE, id |-> id, title |-> JStr(Demo), isPublic |-> isPublic,
     visibility |-> visibility, filePath |-> filePath,
     assets |-> [NoAssets EXCEPT !["thumbnail"] = thumb],
     resources |-> resources, items |-> items]

\* file://localhost/d/Demo%2Efolio/ : DemoPath written another way.
DemoPathEncoded ==
    <<"f", "i", "l", "e", ":", "/", "/", "l", "o", "c", "a", "l", "h", "o", "s", "t", "/", "d", "/", "D", "e", "m", "o", "%", "2", "E", "f", "o", "l", "i", "o", "/">>

\* Documents of the source tree: published ones, ones the inclusion rules
\* exclude, one whose thumbnail copy raises; with and without a declared
\* package path; referring to each other's package paths.
LinkedPool == {
    Linked(JStr(P1), Missing, Missing, JStr(DemoPath), "none",
           <<Ref(JStr(Folio), Missing, JStr(GonePath))>>, <<>>),
    Linked(JStr(<<"p", "2">>), JTrue, JStr(Public), JStr(GonePath), "ok",
           <<Ref(JStr(Folio), Missing, JStr(DemoPathEncoded))>>, <<>>),
    Linked(JStr(<<"p", "3">>), JFalse, Missing, JStr(GonePath), "none", <<>>, <<>>),
    Linked(Missing, Missing, JStr(Private), JStr(DemoPath), "none", <<>>, <<>>),
    Linked(JStr(<<"p", "4">>), Missing, Missing, Missing, "none",
           <<Ref(JStr(<<"l", "i", "n", "k">>), JStr(Folio), JStr(DemoPath)),
             Ref(JStr(<<"l", "i", "n", "k">>), Missing, JStr(GonePath))>>,
           <<Item(JStr(Folio), JStr(GonePath),
                  Ref(Missing, JStr(<<"F", "O", "L", "I", "O">>), JStr(DemoPath)))>>),
    Linked(JStr(<<"p", "5">>), Missing, Missing, JStr(DemoPath), "fails", <<>>, <<>>) }

MaxDocs == 3   \* documents of the source tree

\* proj_dir.name of every candidate.
DocDir == <<"w", "o", "r", "k">>

\* What all_projects.append(obj) adds for a document.
Published(obj, id, c) ==
    [src |-> c, id |-> id, title |-> obj.title,
     resources |-> Numbered1(obj.resources),
     items |-> [j \in DOMAIN obj.items |->
                    [obj.items[j] EXCEPT !.src = j, !.resource.src = j]]]

\* One pass of `for idx, folio_path in enumerate(candidates, 1)` over a
\* candidate holding one object: id, folio_url_to_id entry, inclusion
\* rules, asset copies, append.
LoadDocument ==
    /\ idx < Len(discovered)
    /\ LET Finish(c, obj, r) ==
            /\ idx' = c
            /\ objs' = <<obj>>
            /\ folio_url_to_id' = Put(folio_url_to_id, r.mapping)
            /\ all_projects' = IF r.status = "appended"
                               THEN Append(all_projects, Published(obj, r.record.id, c))
                               ELSE all_projects
            /\ skipped' = skipped \o
                    (CASE r.status = "appended" -> <<>>
                       [] r.status = "raised" -> <<<<c, "error">>>>
                       [] r.status = "not_dict" ->
                            <<<<c, "no valid project objects found">>>>
                       [] OTHER -> <<<<c, r.status>>,
                                     <<c, "no valid project objects found">>>>)
           With(c, obj) == Finish(c, obj, ProcessObject(obj, DocDir, <<c, 1>>))
       IN  With(idx + 1, discovered[idx + 1])
    /\ UNCHANGED <<discovered, exceptLoad>>

\* The loop has gone through at least one candidate.
LoopStarted == idx >= 1

\* `for ... in enumerate(candidates, 1)` has ended.
LoopOver == idx = Len(discovered)

\* The call of resolve_folio_resources that follows the loop.
ResolveAfterLoop == LoopOver /\ resolve_folio_resources

LinkInit ==
    /\ PublishIdle
    /\ idx = 0
    /\ objs = <<>>
    /\ all_projects = <<>>
    /\ skipped = <<>>
    /\ folio_url_to_id = <<>>
    /\ discovered \in UNION {[1..n -> LinkedPool] : n \in 1..MaxDocs}
    /\ ResolveIdle
    /\ ClassifyIdle
    /\ AssetIdle
    /\ SanitizeIdle
    /\ HostIdle
    /\ BaseIdle
    /\ CollectionIdle

LinkNext == LoadDocument \/ ResolveAfterLoop

\* One build: the document loop, then the resolver.
LinkSpec == LinkInit /\ [][LinkNext]_vars
(* ==================== copy_collection_for_project ====================== *)
\* A file reference of a collection item: none, a path string, or a dict
\* with a path and possibly a pathToEdited.
Unset == [form |-> "none", path |-> <<>>, pathToEdited |-> <<>>]
BareRef(p) == [form |-> "str", path |-> p, pathToEdited |-> <<>>]
PairRef(p) == [form |-> "dict", path |-> p, pathToEdited |-> <<>>]
EditedRef(p, e) == [form |-> "dict", path |-> p, pathToEdited |-> e]

\* A collection item as the document declares it.
CollectionItem(type, id, label, filePath, thumbnail, path, url) ==
    [type |-> type, id |-> id, label |-> label, filePath |-> filePath,
     thumbnail |-> thumbnail, path |-> path, url |-> url,
     resource |-> NoResource, src |-> 0]

\* The text of a canonical kind.
KindText(k) ==
    CASE k = "image" -> <<"i", "m", "a", "g", "e">>
      [] k = "video" -> <<"v", "i", "d", "e", "o">>
      [] k = "3d-model" -> <<"3", "d", "-", "m", "o", "d", "e", "l">>
      [] k = "game" -> <<"g", "a", "m", "e">>
      [] k = "text" -> <<"t", "e", "x", "t">>
      [] k = "audio" -> <<"a", "u", "d", "i", "o">>
      [] k = "url-link" -> <<"u", "r", "l", "-", "l", "i", "n", "k">>
      [] k = "folio" -> Folio

\* path_for_type: of a dict filePath only pathToEdited (or pathToOriginal)
\* is looked at; item["path"] when there is no filePath.
path_for_type(item) ==
    IF item.filePath.form = "dict"
    THEN IF item.filePath.pathToEdited # <<>>
         THEN JStr(item.filePath.pathToEdited) ELSE JNull
    ELSE IF item.filePath.form = "str" /\ item.filePath.path # <<>>
    THEN JStr(item.filePath.path)
    ELSE IF Truthy(item.path) THEN item.path
    ELSE JNull

\* The copy of the file a slot refers to: the slot becomes found.name when
\* a file is found and shutil.copy2 succeeds, and is left alone otherwise.
CopySlot(fb, order, ref, copy_ok) ==
    LET With(found) ==
            IF found = NoFile \/ ~copy_ok THEN ref ELSE BareRef(BaseName(found))
    IN  IF ref.form = "none" \/ ref.path = <<>> THEN ref
        ELSE With(locate(fb, order, ref.path))

\* The body of `for item in items_array`: type, id, item directory, file
\* and thumbnail. raw_type.lower() raises on a truthy type that is not a
\* str, slugify on such a label, dest_root / collection_name / item_id on
\* an id that is not a str.
ProcessItem(item, order, copy_ok) ==
    LET Copied(typed, item_id) ==
            [raised |-> item_id = Raised \/ item_id.t # "str",
             item |-> [typed EXCEPT
                        !.id = item_id,
                        !.filePath = CopySlot("item_file", order, item.filePath, copy_ok),
                        !.thumbnail = CopySlot("item_thumbnail", order,
                                               item.thumbnail, copy_ok)]]
        Typed(typed) ==
            Copied(typed, IF Truthy(item.id) THEN item.id
                          ELSE slugify(Or(item.label, typed.type)))
        WithKind(kind) == Typed([item EXCEPT !.type = JStr(KindText(kind))])
    IN  IF Truthy(item.type) /\ item.type.t # "str"
        THEN [raised |-> TRUE, item |-> item]
        ELSE WithKind(determine_collection_item_type("folio-prebuild", item.type,
                                                     path_for_type(item)))

\* copy_collection_for_project on the items of one collection; an
\* exception leaves the function and the document.
RECURSIVE copy_collection_for_project(_, _, _)
copy_collection_for_project(its, order, copy_ok) ==
    IF its = <<>> THEN [raised |-> FALSE, items |-> <<>>]
    ELSE LET Join(first, rest) ==
                [raised |-> first.raised \/ rest.raised,
                 items |-> <<first.item>> \o rest.items]
         IN  Join(ProcessItem(Head(its), order, copy_ok),
                  copy_collection_for_project(Tail(its), order, copy_ok))

IntroMov == <<"c", "l", "i", "p", "s", "/", "I", "n", "t", "r", "o", ".", "M", "O", "V">>

\* Items a collection may hold.
CollectionItems == {
    CollectionItem(Missing, Missing, Missing, PairRef(IntroMov), Unset,
                   Missing, Missing),
    CollectionItem(Missing, Missing, Missing, BareRef(IntroMov),
                   PairRef(<<"i", "m", "g", "/", "t", "h", "u", "m", "b", ".", "g", "i", "f">>), Missing, Missing),
    CollectionItem(JStr(<<"F", "i", "l", "e">>), JStr(<<"a">>), Missing, BareRef(<<"p", "i", "c", ".", "w", "e", "b", "p">>),
                   BareRef(<<"t", "h", "u", "m", "b", ".", "p", "n", "g">>), Missing, Missing),
    CollectionItem(JStr(<<"F", "o", "l", "i", "o">>), JStr(<<"a">>), Missing, Unset, Unset,
                   Missing, JStr(DemoPath)),
    CollectionItem(JInt(<<"5">>), Missing, Missing, Unset, Unset, Missing, Missing),
    CollectionItem(JStr(<<"b", "a", "n", "a", "n", "a">>), Missing, JStr(<<"C", "l", "i", "p", " ", "1">>),
                   EditedRef(<<"p", "i", "c", ".", "p", "n", "g">>, <<"e", "d", "i", "t", "e", "d", "/", "p", "i", "c", ".", "p", "n", "g">>), Unset,
                   Missing, Missing),
    CollectionItem(Missing, JInt(<<"7">>), Missing, Unset, Unset,
                   JStr(<<"n", "o", "t", "e", "s", ".", "t", "x", "t">>), Missing) }

MaxCollection == 2   \* items of the collection

\* Package directories the items are looked up in.
CollectionTrees == {
    {ContentJson},
    {ContentJson, <<"p", "i", "c", ".", "p", "n", "g">>, <<"t", "h", "u", "m", "b", ".", "p", "n", "g">>},
    {ContentJson, <<"p", "i", "c", ".", "j", "p", "g">>, <<"i", "m", "g", "/", "p", "i", "c", ".", "p", "n", "g">>} }

\* `col_copied = copy_collection_for_project(proj_dir, obj, ...)` in main().
CopyCollection ==
    /\ collection_step = "declared"
    /\ \E order \in Enumerations(tree) : \E copy_ok \in BOOLEAN :
        LET Finish(r) ==
                /\ items_array' = IF r.raised THEN items_array ELSE r.items
                /\ collection_step' = IF r.raised THEN "raised" ELSE "copied"
        IN  Finish(copy_collection_for_project(items_array, order, copy_ok))
    /\ UNCHANGED <<declared_items, exceptCollection>>

\* The pass of resolve_folio_resources over the items of the collection.
ResolveCollection ==
    /\ collection_step = "copied"
    /\ LET Finish(r) ==
                /\ items_array' = IF r.raised THEN items_array ELSE r.out
                /\ collection_step' = IF r.raised THEN "raised" ELSE "resolved"
       IN  Finish(ResolveItems(items_array, normalized_folio_map(folio_url_to_id)))
    /\ UNCHANGED <<declared_items, exceptCollection>>

CollectionInit ==
    /\ PublishIdle /\ ResolveIdle /\ ClassifyIdle /\ SanitizeIdle /\ HostIdle /\ BaseIdle
    /\ idx = 0
    /\ objs = <<>>
    /\ all_projects = <<>>
    /\ skipped = <<>>
    /\ folio_url_to_id = <<<<JStr(DemoPath), JStr(P1)>>>>
    /\ discovered = <<>>
    /\ tree \in CollectionTrees
    /\ images = <<>>
    /\ builds = <<>>
    /\ fallback = "none"
    /\ ref_path = <<>>
    /\ located = <<>>
    /\ declared_items \in UNION {[1..n -> CollectionItems] : n \in 1..MaxCollection}
    /\ items_array = Numbered1(declared_items)
    /\ collection_step = "declared"

CollectionNext == CopyCollection \/ ResolveCollection

\* One collection of one document through the build.
CollectionSpec == CollectionInit /\ [][CollectionNext]_vars
(* ============================== claims ================================= *)
Holding == {"prepare", "mktemp", "build", "manifest", "swap",
            "cleanup1", "cleanup2", "cleanup3", "verify"}

MutualExclusion ==
    /\ Cardinality({p \in Procs : pc[p] \in Holding}) <= 1
    /\ \A p \in Procs : pc[p] \in Holding => lock = p

FailFast ==
    \A p \in Procs :
        (pc[p] = "acquire" /\ lock # 0 /\ pc'[p] # pc[p]) =>
            /\ pc'[p] = "lock_held"
            /\ fs' = fs
            /\ lock' = lock
            /\ \A q \in Procs \ {p} : pc'[q] = pc[q]

HolderPublishes ==
    \A p \in Procs :
        (pc[p] = "swap" /\ pc'[p] \in {"cleanup1", "committed"}) =>
            fs'[Live] = Complete(NewBuild(p), fs[Tmp(p)].mtime)

\* C1: at most one invocation is between a successful lock acquisition and
\* its release; an invocation that finds the marker goes straight to the
\* lock-held exit, changing neither the directories, the marker nor the
\* holder; and the holder's swap installs the holder's own complete build.
C1_LockExclusion ==
    [](MutualExclusion) /\ [][FailFast /\ HolderPublishes]_vars

C1_Witness ==
    \E p \in Procs : \E q \in Procs :
        /\ pc[p] = "lock_held"
        /\ pc[q] = "committed"
        /\ fs[Live].build = NewBuild(q)
        /\ fs[Live].tree = "complete"

BuildingToVerifying == {"build", "manifest", "swap",
                        "cleanup1", "cleanup2", "cleanup3", "verify"}

\* C2: an invocation killed between the start of Building and the end of
\* Verifying leaves `public/projects` present and holding the complete
\* previous build or the complete new build (no external rename and no
\* failed filesystem call being involved).
C2_KilledLiveIntact ==
    [][\A p \in Procs :
        (pc[p] \in BuildingToVerifying /\ pc'[p] = "killed"
            /\ renames = 0 /\ faults = 0) =>
            /\ fs'[Live].tree = "complete"
            /\ fs'[Live].build \in {PrevBuild, NewBuild(p)}]_vars

\* C3: from lock acquisition until the swap step begins, no step of the
\* build changes the live directory.
C3_LiveUntouchedBeforeSwap ==
    [][\A p \in Procs :
        (pc[p] \in {"prepare", "mktemp", "build", "manifest"} /\ pc'[p] # pc[p]) =>
            fs'[Live] = fs[Live]]_vars

Terminated == {"committed", "rolled_back", "manifest_failed", "aborted", "crashed"}

\* C4: every run that acquired the lock has removed its marker when it has
\* terminated normally or with an error (a kill excepted).
C4_LockReleasedAtExit ==
    [][\A p \in Procs :
        (lock_acquired[p] /\ pc'[p] \in Terminated) => lock' # p]_vars

\* C5: when a step fails after the lock is held and the run terminates, no
\* backup is left on disk while the live path is absent, and the run's temp
\* directory is gone (the failing step being the only failed call).
C5_RollbackRestores ==
    [][\A p \in Procs :
        (pc[p] \in Holding /\ pc'[p] \in {"rolled_back", "manifest_failed"}
            /\ faults = 0 /\ faults' = 1) =>
            /\ ~(\E b \in BackupNames : Exists(fs', b) /\ ~Exists(fs', Live))
            /\ ~Exists(fs', Tmp(p))]_vars

\* C6: a run whose manifest write failed has neither removed the live
\* directory nor renamed its temp directory to the live path.
C6_NoSwapAfterFailedManifest ==
    [][\A p \in Procs :
        (pc[p] = "manifest" /\ pc'[p] = "manifest_failed") =>
            /\ fsOps[p] \cap {"remove_live", "install"} = {}
            /\ fs'[Live] = fs[Live]]_vars

\* C7: an invocation that aborted because the marker exists has made no
\* change inside the public directory.
C7_LockHeldAbortChangesNothing ==
    [][\A p \in Procs :
        (pc[p] = "acquire" /\ pc'[p] = "lock_held") => fsOps[p] = {} /\ fs' = fs]_vars

\* C8: when both the removal and the rename fail while preparing the live
\* directory, the run ends there with the marker removed, no temp directory
\* created and the live directory exactly as it was.
C8_PrepareAbortKeepsLive ==
    [][\A p \in Procs :
        (pc[p] = "prepare" /\ pc'[p] = "aborted") =>
            /\ lock' # p
            /\ ~Exists(fs', Tmp(p))
            /\ fs'[Live] = fs[Live]]_vars

\* C9: a run whose temp-to-live rename succeeded finishes its verification
\* with the canonical directory present and holding the new build, also
\* when the live directory was renamed to `projects N` in between (no
\* filesystem call having failed).
C9_VerifiedHoldsNewBuild ==
    [][\A p \in Procs :
        (pc[p] = "verify" /\ pc'[p] = "committed" /\ faults' = 0) =>
            /\ fs'[Live].tree = "complete"
            /\ fs'[Live].build = NewBuild(p)]_vars

\* The repair procedure runs in this step of invocation p, with the canonical
\* directory absent and at least one numbered sibling present.
RepairRuns(p) ==
    /\ pc[p] = "start"
    /\ \/ pc'[p] \in RepairExits
       \/ pc'[p] = "acquire" /\ script'[p] = "folio-prebuild"
    /\ ~Exists(fs, Live)
    /\ \E n \in NumberedNames : Exists(fs, n)

NumberedPresent(f) == {n \in NumberedNames : Exists(f, n)}

RecordsOf(c, i) == {k \in DOMAIN all_projects : all_projects[k].src = <<c, i>>}

\* Object i of the candidate read last is an object, passes the visibility
\* gate, and its own processing raises nothing.
Publishable(i) ==
    /\ objs[i].dict
    /\ ~SkippedByIsPublic(objs[i])
    /\ ~SkippedByVisibility(objs[i])
    /\ ProcessObject(objs[i], Candidates[idx].dir, <<idx, i>>).status # "raised"

\* C11: every object of a parsed candidate that passes the visibility gate
\* and is processed without error has exactly one record in the manifest,
\* whatever happens to the other objects of its file; every record has a
\* non-empty id and the folderName slug(title) + "_" + id.
C11_OneRecordPerObject ==
    /\ \A i \in DOMAIN objs :
            Publishable(i) => Cardinality(RecordsOf(idx, i)) = 1
    /\ \A k \in DOMAIN all_projects :
            /\ Truthy(all_projects[k].id)
            /\ all_projects[k].folderName.v # <<>>
            /\ \A i \in DOMAIN objs :
                    all_projects[k].src = <<idx, i>> =>
                        all_projects[k].folderName.v =
                            slugify(TitleOf(objs[i])).v \o <<"_">>
                                \o Format(all_projects[k].id)
(* -------------------------- cross-references --------------------------- *)
\* The normalized target of x is a key of the lookup.
TargetKnown(x) ==
    LET norm == normalize_url(UrlOf(x)) IN
    norm # Raised /\ InMap(normalized_folio_map(folio_url_to_id), norm)

TargetId(x) ==
    Lookup(normalized_folio_map(folio_url_to_id), normalize_url(UrlOf(x)))

WarningsFor(ws, where, src) ==
    Cardinality({k \in DOMAIN ws : ws[k].where = where /\ ws[k].src = src})

\* A reference x of cross-reference kind and what the output holds for it
\* (outs: the output references with the position of x).
Resolved(x, outs, ws, where) ==
    IF TargetKnown(x)
    THEN \E y \in outs : y.url = ProjectsUrl(TargetId(x)) /\ y.type = LocalLink
    ELSE outs = {} /\ WarningsFor(ws, where, x.src) = 1

\* A collection item of cross-reference type that names a target.
IsFolioItem(item) ==
    item.type.t = "str" /\ Lower(item.type.v) = Folio /\ Truthy(UrlOf(item))

\* C12: when the resolver returns, every cross-reference (a resource of a
\* document, a collection item of cross-reference type, the resource of a
\* collection item) whose target is in the lookup has the url
\* /projects/{id} and the internal-link type, and every other one is gone
\* from the output with exactly one warning recorded for it.
C12_ResolvedOrRemoved ==
    [][resolve_state' = "returned" =>
        \A p \in DOMAIN all_projects :
            LET old == all_projects[p]
                new == all_projects'[p]
            IN  /\ \A j \in DOMAIN old.resources :
                    is_folio_resource(old.resources[j]) =>
                        Resolved(old.resources[j],
                                 {y \in Range(new.resources) : y.src = j},
                                 warnings', "resource")
                /\ \A j \in DOMAIN old.items :
                    /\ is_folio_resource(old.items[j].resource) =>
                        Resolved(old.items[j].resource,
                                 {i.resource : i \in {y \in Range(new.items) :
                                        y.src = j /\ y.resource # NoResource}},
                                 warnings', "item resource")
                    /\ IsFolioItem(old.items[j]) =>
                        Resolved(old.items[j],
                                 {y \in Range(new.items) : y.src = j},
                                 warnings', "item")]_vars
(* ----------------------------- classifier ------------------------------ *)
\* The eight canonical kinds; the scripts call the cross-reference kind
\* "folio".
CanonicalKinds == {"image", "video", "3d-model", "game", "text", "audio",
                   "url-link", "folio"}

\* C13: for every declared type and path hint, absent, empty, not a string
\* or unrecognised ones included, the classifier of either script returns
\* one of the eight canonical kinds.
C13_ClassifierTotal ==
    classifier # "none" => normalized_type \in CanonicalKinds

\* An empty declared type and an empty path hint have been classified, and
\* so has a declared type that is not a string.
C13_Witness ==
    /\ classifier # "none"
    /\ raw_type \in {JStr(<<>>), JInt(<<"5">>)}
    /\ path_val = JStr(<<>>)
    /\ normalized_type = "image"

\* The six strategies of the claim in their order, each giving a kind or
\* "no match".
Strategies(raw, path) ==
    LET isType == Truthy(raw) /\ raw.t = "str"
        isPath == Truthy(path) /\ path.t = "str"
        t == Lower(Strip(raw.v))
    IN  << IF isType /\ t \in CanonicalNames \cup {<<"u", "r", "l">>, Folio}
           THEN (IF t = <<"u", "r", "l">> THEN "url-link"
                 ELSE IF t = Folio THEN "folio"
                 ELSE KindOfName(t))
           ELSE "no match",
           IF isType THEN TokenKind(IF StartsWith(t, <<".">>) THEN Tail(t) ELSE t)
           ELSE "no match",
           IF isPath /\ IsUrl(Strip(path.v)) THEN "url-link" ELSE "no match",
           IF isPath THEN SuffixKind(Lower(Suffix(unquote(path.v))))
           ELSE "no match",
           IF isPath THEN ScanKind(Lower(path.v)) ELSE "no match",
           "image" >>

FirstMatch(s) == s[CHOOSE k \in DOMAIN s : s[k] # "no match" /\
                        \A j \in DOMAIN s : s[j] # "no match" => k <= j]

\* C14: the classifier of folio-prebuild.py returns what the first matching
\* strategy gives, in the order: recognised name or synonym, extension
\* token in the declared type, absolute URL, extension of the path hint,
\* substring scan of the path hint, image.
C14_FirstMatchingStrategy ==
    classifier = "folio-prebuild" =>
        normalized_type = FirstMatch(Strategies(raw_type, path_val))

\* Declared type "mov" with a path hint that ends in .png, and with no
\* path hint at all, has been classified as video.
C14_Witness ==
    /\ classifier = "folio-prebuild"
    /\ raw_type = JStr(<<"m", "o", "v">>)
    /\ path_val \in {JStr(<<"h", "t", "t", "p", "s", ":", "/", "/", "x", ".", "i", "o", "/", "a", ".", "p", "n", "g">>), Missing}
    /\ normalized_type = "video"

(* --------------------------- visibility gate --------------------------- *)
\* C15: an object of the candidate read last is absent from the manifest
\* exactly when isPublic is present and is the boolean false, or visibility
\* is present and is not the string "public".
C15_ExcludedExactlyWhenGated ==
    \A i \in DOMAIN objs :
        objs[i].dict =>
            (RecordsOf(idx, i) = {}
                <=> (SkippedByIsPublic(objs[i]) \/ SkippedByVisibility(objs[i])))
(* ------------------------- asset copy failures ------------------------- *)
\* An asset of the object cannot be copied.
HasFailingAsset(obj) == \E k \in AssetKinds : obj.assets[k] = "fails"

\* Nothing but a copy can fail while the object is processed: its id and
\* its folder name can be computed.
OnlyCopiesFail(obj, dir) ==
    /\ AssignedId(obj, dir) # Raised
    /\ make_project_folder_name(TitleOf(obj), AssignedId(obj, dir)) # Raised

\* C18: when copying an asset of a document fails (thumbnail, image,
\* resource, collection item file or collection item thumbnail), only that
\* asset is skipped: the document, if it passes the visibility gate, is in
\* the manifest and its other assets have been copied.
C18_CopyFailureSkipsAssetOnly ==
    (Len(objs) = 1 /\ objs[1].dict /\ HasFailingAsset(objs[1])
        /\ OnlyCopiesFail(objs[1], Candidates[idx].dir)
        /\ ~SkippedByIsPublic(objs[1]) /\ ~SkippedByVisibility(objs[1]))
    => \E k \in RecordsOf(idx, 1) :
            all_projects[k].copied = CopiedAssets(objs[1])
(* ------------------------------ assets --------------------------------- *)
\* What a build writes into the manifest for the package: the document it
\* read and the filenames of its image slots.
ManifestOf(b) == [candidate |-> b.candidate, images |-> b.images]

\* C16: two builds over the same unchanged package directory write the
\* same manifest (the same record with the same asset filenames), whatever
\* order the filesystem enumerates the directory in.
C16_BuildsAgree ==
    \A i, j \in DOMAIN builds : ManifestOf(builds[i]) = ManifestOf(builds[j])

\* The characters of paths in code point order.
CodePoints == <<".", "/">> \o Capital \o <<"_">> \o Small

CodeOf(c) == CHOOSE i \in DOMAIN CodePoints : CodePoints[i] = c

\* a < b as Python compares strings.
RECURSIVE PathLess(_, _)
PathLess(a, b) ==
    IF b = <<>> THEN FALSE
    ELSE IF a = <<>> THEN TRUE
    ELSE IF Head(a) = Head(b) THEN PathLess(Tail(a), Tail(b))
    ELSE CodeOf(Head(a)) < CodeOf(Head(b))

\* The first of a non-empty set of paths in sorted order.
SortedFirst(ps) == CHOOSE p \in ps : \A q \in ps \ {p} : PathLess(p, q)

\* C17: when the referenced path does not exist and several files have its
\* stem (case-insensitively) and an accepted extension, every call of the
\* stem fallback returns the first of them in path-sorted order.
C17_LocateSortedFirst ==
    \A k \in DOMAIN located :
        (ref_path \notin tree /\ Cardinality(Matches(fallback, tree, ref_path)) > 1)
            => located[k] = SortedFirst(Matches(fallback, tree, ref_path))

\* The references of the document's image slots that exist and that
\* build b copied.
CopiedSlots(b) ==
    {e \in Range(images) :
        e[2].path \in tree /\ \E c \in Range(b.copies) : c[1] = e[2].path}

\* C20: for every image slot whose reference is an existing file that the
\* build copied, the project folder holds a file of the source's base name
\* directly in it, and the slot in the manifest is that bare filename.
C20_FlatCopyBareName ==
    \A k \in DOMAIN builds : \A e \in CopiedSlots(builds[k]) :
        /\ \E f \in builds[k].folder :
                f[1] = BaseName(e[2].path) /\ "/" \notin Range(f[1])
        /\ \A f \in builds[k].folder : "/" \notin Range(f[1])
        /\ Get(builds[k].images, e[1]) = PathStr(BaseName(e[2].path))

\* A build has copied img/pic.png, referenced by the banner slot, and the
\* existing thumbnail the document names.
C20_Witness ==
    \E k \in DOMAIN builds :
        /\ Get(images, "banner") = PathObj(<<"i", "m", "g", "/", "p", "i", "c", ".", "p", "n", "g">>)
        /\ <<"banner", Get(images, "banner")>> \in CopiedSlots(builds[k])
        /\ <<"thumbnail", Get(images, "thumbnail")>> \in CopiedSlots(builds[k])
        /\ <<<<"p", "i", "c", ".", "p", "n", "g">>, <<"i", "m", "g", "/", "p", "i", "c", ".", "p", "n", "g">>>> \in builds[k].folder
(* ----------------------------- manifest -------------------------------- *)
\* The keys of the dicts of value, at every depth.
RECURSIVE KeysIn(_)
KeysIn(value) ==
    UNION {(IF value.t = "dict" THEN {value.items[i][1]} ELSE {})
                \cup KeysIn(value.items[i][2]) : i \in DOMAIN value.items}

\* A key that must not reach the manifest at any depth.
Internal(k) ==
    \/ (k # <<>> /\ Head(k) = "_")
    \/ k \in {<<"a", "s", "s", "e", "t", "s", "F", "o", "l", "d", "e", "r">>, <<"r", "e", "q", "u", "i", "r", "e", "s", "F", "o", "l", "l", "o", "w", "U", "p">>}

\* The ways from value down to each of its keys and elements: the keys
\* passed, and for an element of a list its position.
RECURSIVE KeyPaths(_)
KeyPaths(value) ==
    UNION {LET step == <<value.items[i][1], IF value.t = "list" THEN i ELSE 0>>
           IN  {<<step>>} \cup {<<step>> \o p : p \in KeyPaths(value.items[i][2])} :
           i \in DOMAIN value.items}

\* C19: in the written manifest no dict at any depth has a key that starts
\* with an underscore or is assetsFolder or requiresFollowUp, no record has
\* a filePath key of its own, and every filePath key below the root of a
\* record (not inside a removed value) is still there.
C19_NoInternalKeys ==
    written =>
        \A i \in DOMAIN all_projects :
            LET out == serializable_projects[i] IN
            /\ \A k \in KeysIn(out) : ~Internal(k)
            /\ \A e \in Range(out.items) : e[1] # <<"f", "i", "l", "e", "P", "a", "t", "h">>
            /\ \A p \in KeyPaths(all_projects[i]) :
                    (/\ Len(p) >= 2
                     /\ p[Len(p)][1] = <<"f", "i", "l", "e", "P", "a", "t", "h">>
                     /\ p[1][1] # <<"f", "i", "l", "e", "P", "a", "t", "h">>
                     /\ \A j \in DOMAIN p : ~Internal(p[j][1]))
                        => p \in KeyPaths(out)

\* A record with a filePath of its own and a list holding an item with
\* _base_dir and filePath has been written: the item keeps its filePath
\* only.
C19_Witness ==
    /\ written
    /\ all_projects =
        <<Dict(<<<<<<"i", "t", "e", "m", "s">>,
                   List(<<Leaf("str", <<"x">>),
                          Dict(<<<<<<"_", "b", "a", "s", "e", "_", "d", "i", "r">>, Leaf("path", <<"/", "s", "r", "c", "/", "A", ".", "f", "o", "l", "i", "o">>)>>,
                                 <<<<"f", "i", "l", "e", "P", "a", "t", "h">>, Leaf("str", <<"/", "s", "r", "c", "/", "A", ".", "f", "o", "l", "i", "o">>)>>>>)>>)>>,
                 <<<<"f", "i", "l", "e", "P", "a", "t", "h">>, Leaf("str", <<"/", "s", "r", "c", "/", "A", ".", "f", "o", "l", "i", "o">>)>>>>)>>
    /\ serializable_projects =
        <<Dict(<<<<<<"i", "t", "e", "m", "s">>,
                   List(<<Leaf("str", <<"x">>),
                          Dict(<<<<<<"f", "i", "l", "e", "P", "a", "t", "h">>, Leaf("str", <<"/", "s", "r", "c", "/", "A", ".", "f", "o", "l", "i", "o">>)>>>>)>>)>>>>)>>

\* The marker of invocation k is on disk and k was terminated from outside.
MarkerLeftBy(k) == pc[k] = "killed" /\ lock = k

\* C29: a marker left behind by a killed build stays: no step of a build or
\* of a repair removes or replaces it, and every build that reaches
\* acquire_lock afterwards ends with the lock-held error; whoever removes a
\* marker is the invocation that created it.
C29_StaleMarkerStays ==
    [][/\ \A k \in Procs :
            MarkerLeftBy(k) =>
                /\ lock' = k
                /\ \A q \in Procs :
                    (pc[q] = "acquire" /\ pc'[q] # "acquire") => pc'[q] = "lock_held"
       /\ (lock # 0 /\ lock' # lock) =>
                /\ lock' = 0
                /\ lock_acquired[lock]
                /\ pc'[lock] # pc[lock]]_vars

C29_Witness ==
    \E k \in Procs : \E q \in Procs :
        /\ MarkerLeftBy(k)
        /\ pc[q] = "lock_held"

\* The run of p has renamed the live directory to a backup and has not ended.
MadeBackup(p) == pc[p] \notin Exited /\ "rename_live" \in fsOps[p]

\* C26 as stated: whenever the live path is absent, a backup made by a run
\* that has not ended is still on disk.
C26_BackupKeptWhileLiveAbsent ==
    ~Exists(fs, Live) =>
        \A p \in Procs :
            MadeBackup(p) => Exists(fs, PrepBackup(p)) \/ Exists(fs, SwapBackup(p))

PostSwap == {"cleanup1", "cleanup2", "cleanup3", "verify"}

\* The step removes, damages or moves the backup directory b.
BackupTouched(b) == Exists(fs, b) /\ fs'[b] # fs[b]

\* The step puts the backup b back as the live directory.
BackupRestored(b) == ~Exists(fs', b) /\ fs'[Live] = fs[b]

\* The step is the swap of p that installs its build, or a later step of
\* the run that installed it.
AfterInstall(p) ==
    \/ /\ pc[p] = "swap"
       /\ pc'[p] \in {"cleanup1", "committed"}
       /\ fs'[Live] = Complete(NewBuild(p), fs[Tmp(p)].mtime)
    \/ /\ pc[p] \in PostSwap
       /\ pc'[p] # pc[p]
       /\ "install" \in fsOps[p]

\* C26 amended: a backup directory is removed only by a step that has the
\* temp-to-live rename behind it (any other step that touches a backup
\* restores it as the live directory), and as long as no outside process
\* has renamed the live directory, a backup made by a run that has not ended
\* is on disk whenever the live path is absent.
C26_BackupDeletedAfterSwap ==
    /\ [](renames = 0 => C26_BackupKeptWhileLiveAbsent)
    /\ [][\A b \in BackupNames :
            BackupTouched(b) =>
                BackupRestored(b) \/ \E p \in Procs : AfterInstall(p)]_vars

\* The run made a backup, installed its build and the backup is gone.
C26_Witness ==
    \E p \in Procs :
        /\ pc[p] = "cleanup1"
        /\ {"rename_live", "install"} \subseteq fsOps[p]
        /\ ~Exists(fs, PrepBackup(p))
        /\ ~Exists(fs, SwapBackup(p))
        /\ fs[Live].build = NewBuild(p)

\* Every string anywhere in a value.
RECURSIVE StringsIn(_)
StringsIn(value) ==
    IF value.t = "str" THEN {value.v}
    ELSE UNION {StringsIn(value.items[i][2]) : i \in DOMAIN value.items}

\* The external hostnames a manifest refers to.
ReferencedHosts(projects) ==
    UNION {UNION {extract_hostname(s) : s \in StringsIn(projects[i])}
           : i \in DOMAIN projects}

RunEnded == publish_step \in {"committed", "manifest_failed", "rolled_back"}

\* C28: at the end of a run, committed or failed, every external hostname
\* the manifest of the live directory refers to is listed in
\* image-hostnames.json.
C28_SideFileCoversLive ==
    RunEnded => ReferencedHosts(live_projects) \subseteq hostnames_config

\* The directories the declared assets folder resolves to: the declared
\* path itself, or the path taken from the document's own directory.
AssetsTargets(obj, pd, ds) ==
    LET av == AssetsVal(obj) IN
    IF av.t = "str" /\ av.v # <<>>
    THEN {p \in {AssetsPath(av.v), Joined(pd, AssetsPath(av.v))} : IsDir(p, ds)}
    ELSE {}

\* The directories the declared package path resolves to.
PackageTargets(obj, ds) ==
    IF obj.filePath.t = "str" /\ StartsWith(obj.filePath.v, FileScheme)
    THEN {p \in {Path(unquote(UrlPath(obj.filePath.v)))} : IsDir(p, ds)}
    ELSE {}

SameDir(p, q) == Absolute(p) = Absolute(q)

\* C27: the base directory is the assets folder whenever that resolves,
\* whatever the package path is; the package path only when no assets folder
\* resolves; the document's own directory only when neither resolves.
C27_BaseDirPrecedence ==
    base_dir # NoPath =>
        LET obj == objs[1] IN
        IF AssetsTargets(obj, proj_dir, dirs) # {}
        THEN \E t \in AssetsTargets(obj, proj_dir, dirs) : SameDir(base_dir, t)
        ELSE IF PackageTargets(obj, dirs) # {}
        THEN \E t \in PackageTargets(obj, dirs) : SameDir(base_dir, t)
        ELSE base_dir = proj_dir
(* ---------------------- cross-references and the loop ------------------- *)
\* The urls of the links the resolver wrote: resources, collection items
\* and item resources whose type it set to local-link.
WrittenLinks(projects) ==
    UNION {{p.resources[j].url : j \in {k \in DOMAIN p.resources :
                                        p.resources[k].type = LocalLink}}
           \cup {p.items[j].url : j \in {k \in DOMAIN p.items :
                                        p.items[k].type = LocalLink}}
           \cup {p.items[j].resource.url : j \in {k \in DOMAIN p.items :
                                        p.items[k].resource.type = LocalLink}}
           : p \in Range(projects)}

\* The resolver has returned to main().
ResolverReturned == LoopOver /\ resolve_state = "returned"

\* C24: every /projects/{id} link written by the resolver names the id of
\* a document that is in the manifest; a reference to a document the
\* inclusion rules excluded is removed, not rewritten.
C24_LinksNameManifestIds ==
    ResolverReturned =>
        \A u \in WrittenLinks(all_projects) :
            \E i \in DOMAIN all_projects : u = ProjectsUrl(all_projects[i].id)

\* The document declares the package path that normalizes to norm, and the
\* loop records it in folio_url_to_id.
Declares(d, norm) ==
    /\ d.dict
    /\ Truthy(AssignedId(d, DocDir))
    /\ Truthy(d.filePath)
    /\ normalize_url(d.filePath) = norm

DeclaredAt(norm) == {k \in DOMAIN discovered : Declares(discovered[k], norm)}

\* The references of a document as declared: <<kind, position, url>>.
FolioRefs(d) ==
    {<<"resource", j, UrlOf(d.resources[j])>> :
        j \in {k \in DOMAIN d.resources : is_folio_resource(d.resources[k])}}
    \cup {<<"item resource", j, UrlOf(d.items[j].resource)>> :
        j \in {k \in DOMAIN d.items : is_folio_resource(d.items[k].resource)}}

\* The reference came out of the resolver as a link.
CameOutAsLink(p, ref) ==
    IF ref[1] = "resource"
    THEN \E k \in DOMAIN p.resources :
            p.resources[k].src = ref[2] /\ p.resources[k].type = LocalLink
    ELSE p.items[ref[2]].resource.type = LocalLink

\* C30: the resolver runs after the whole loop, so a reference comes out as
\* a link exactly when some discovered document, before or after the
\* referring one, declares the path it names.
C30_ResolvesWhateverOrder ==
    ResolverReturned =>
        \A i \in DOMAIN all_projects :
            \A ref \in FolioRefs(discovered[all_projects[i].src]) :
                CameOutAsLink(all_projects[i], ref)
                    <=> DeclaredAt(normalize_url(ref[3])) # {}

\* A link to a document that was processed after the referring one, and
\* only after it.
C30_Witness ==
    /\ ResolverReturned
    /\ \E i \in DOMAIN all_projects :
        \E ref \in FolioRefs(discovered[all_projects[i].src]) :
            /\ CameOutAsLink(all_projects[i], ref)
            /\ DeclaredAt(normalize_url(ref[3])) # {}
            /\ \A k \in DeclaredAt(normalize_url(ref[3])) : k > all_projects[i].src
(* --------------------------- collection items --------------------------- *)
\* copy_collection_for_project has returned; the items are as the manifest
\* will hold them once the resolver has run.
CollectionCopied == collection_step \in {"copied", "resolved"}

\* The slot holds the bare name of a file of the package.
BareFilename(ref) ==
    /\ ref.form = "str"
    /\ InRoot(ref.path)
    /\ \E p \in tree : BaseName(p) = ref.path

\* C21: every asset slot of a collection item is unset or a bare published
\* filename; a reference whose file is not located or not copied does not
\* stay as its {id, path} pair, a relative path or an absolute path.
C21_SlotsUnsetOrBare ==
    CollectionCopied =>
        \A i \in DOMAIN items_array :
            /\ items_array[i].filePath = Unset \/ BareFilename(items_array[i].filePath)
            /\ items_array[i].thumbnail = Unset \/ BareFilename(items_array[i].thumbnail)

\* C22: every item of the collection has one of the eight canonical kinds
\* as its type, also after the resolver went over the items.
C22_ItemTypeCanonical ==
    CollectionCopied =>
        \A i \in DOMAIN items_array :
            \E k \in CanonicalKinds : items_array[i].type = JStr(KindText(k))

\* C23: no two items of the collection have the same id, declared or
\* generated, so no two share an item directory.
C23_ItemIdsDistinct ==
    CollectionCopied =>
        \A i, j \in DOMAIN items_array :
            i # j => items_array[i].id # items_array[j].id

\* The declared type is absent, "file", or no name and no extension token
\* the classifier knows.
NotRecognised(rt) ==
    \/ ~Truthy(rt)
    \/ /\ rt.t = "str"
       /\ NameKind("folio-prebuild", TypeText(rt)) = "no match"
       /\ ExtTokenKind("folio-prebuild", TypeText(rt)) = "no match"

\* C25: an item whose declared type is absent, "file" or not recognised
\* gets the kind of the extension of its file reference, whether that
\* reference is a path string or an {id, path} pair.
C25_TypeFromFileReference ==
    CollectionCopied =>
        \A i \in DOMAIN items_array :
            (/\ NotRecognised(declared_items[i].type)
             /\ declared_items[i].filePath.path # <<>>)
            => items_array[i].type =
                    JStr(KindText(PathKind(JStr(declared_items[i].filePath.path))))
Spec == Init /\ [][Next]_vars
====
